---- MODULE Spec2Model ----
(***************************************************************************)
(* Reconciliation engine of the AI Drawing Inspector: quantity expansion,  *)
(* callout validation, feature matching and scoring.                       *)
(*                                                                         *)
(* Python values are tagged records (PyNone, PyInt, PyFloat, PyStr,        *)
(* PyDict); a dict is a function from its keys, read with Get as           *)
(* dict.get reads it.  Floats are fixed point, exact in the unit of their  *)
(* field:                                                                  *)
(*   lengths (diameter, depth, radius, size, tolerances)   0.001 inch      *)
(*   thread nominal diameter, pitch and their tolerances   0.01 mm         *)
(*   a quantity or an angle given as a float or as text    0.01            *)
(*   match rates                                           0.0001          *)
(* A float subtraction rounds to the nearest double, so a difference that  *)
(* is exactly a tolerance in decimals compares below, at or above it;      *)
(* fp_round is the side it falls on (-1, 0, 1 units in the last place).    *)
(* A MatchResult names its callout and its SolidWorks feature by their     *)
(* position in the lists given to match_all (0 for None).                  *)
(***************************************************************************)
EXTENDS Integers, Sequences, FiniteSets, TLC

VARIABLES
    pc,                     \* position in the operation under way
    fp_round,               \* rounding of a float difference: -1, 0 or 1 ulp
    drawing_callouts,       \* match_all: the callout dicts
    sw_features,            \* match_all: the SwFeature objects
    matcher,                \* the FeatureMatcher's tolerances (self.*)
    init_args,              \* the arguments FeatureMatcher was constructed with
    default_config,         \* config.default_config, the module-level singleton
    results,                \* match_all: results
    used_sw_indices,        \* match_all: used_sw_indices
    used_callout_indices,   \* match_all: used_callout_indices
    scores,                 \* compute_scores: the returned dict
    callouts,               \* expansion / validation: the input callout dicts
    features,               \* expansion: the input SwFeature objects
    expanded,               \* expand_drawing_callouts: expanded
    expanded_sw,            \* expand_sw_features: expanded
    repaired,               \* validate_and_repair_all: repaired
    verdicts,               \* validate_and_repair_all: (is_valid, error) per input
    stats,                  \* validate_and_repair_all: stats
    path,                   \* the caller under way: a pipeline's run or compare_drawing
    sw_data,                \* the caller's SolidWorks JSON (None when there is none)
    diff,                   \* compare_drawing: result
    raw_texts,              \* normalization: the raw text of each callout
    drawing_units,          \* normalization: the drawing-level unit
    title_block_text,       \* normalize_callouts: title_block_text
    normalized              \* normalization: the normalized callouts

vars == <<pc, fp_round, drawing_callouts, sw_features, matcher, init_args, default_config,
          results, used_sw_indices, used_callout_indices, scores, callouts,
          features, expanded, expanded_sw, repaired, verdicts, stats, path,
          sw_data, diff, raw_texts, drawing_units, title_block_text,
                normalized>>

(***************************************************************************)
(* Python values                                                           *)
(***************************************************************************)
PyNone == [k |-> "none"]
PyInt(n) == [k |-> "int", n |-> n]
PyFloat(n) == [k |-> "float", n |-> n]
PyStr(s) == [k |-> "str", s |-> s]
PyBool(b) == [k |-> "bool", b |-> b]
PyDict(d) == [k |-> "dict", d |-> d]
EmptyDict == [x \in {} |-> PyNone]

\* d[key] = value on a dict
SetKey(d, key, value) ==
    [f \in DOMAIN d \cup {key} |-> IF f = key THEN value ELSE d[f]]

\* a dict literal: an Absent entry stands for a key the dict does not hold
Absent == [k |-> "absent"]
DictOf(all) == [f \in {g \in DOMAIN all : all[g] # Absent} |-> all[f]]

Get(d, f) == IF f \in DOMAIN d THEN d[f] ELSE PyNone
GetOr(d, f, default) == IF f \in DOMAIN d THEN d[f] ELSE default

IsNumber(v) == v.k \in {"int", "float"}

Truthy(v) ==
    CASE v.k = "none" -> FALSE
      [] v.k = "bool" -> v.b
      [] v.k \in {"int", "float"} -> v.n # 0
      [] v.k = "str" -> v.s # ""
      [] v.k = "dict" -> DOMAIN v.d # {}

Abs(n) == IF n < 0 THEN -n ELSE n
Max(a, b) == IF a >= b THEN a ELSE b

\* abs(a - b) <= tol on floats, where d is the decimal value of a - b: a
\* difference of equal floats is exactly 0; any other is off by fp_round
FloatLeq(d, tol) == Abs(d) < tol \/ (Abs(d) = tol /\ (d = 0 \/ fp_round <= 0))

\* float("inf") and finite scores
Inf == [k |-> "inf"]
Fin(n) == [k |-> "fin", n |-> n]
AbsLess(a, b) ==
    IF a.k = "inf" THEN FALSE
    ELSE IF b.k = "inf" THEN TRUE
    ELSE Abs(a.n) < Abs(b.n)

(***************************************************************************)
(* Configuration (config.py) and FeatureMatcher.__init__                   *)
(***************************************************************************)
hole_tolerance_inches == 15
thread_tolerance_mm == 10
pitch_tolerance == 1
fillet_tolerance_inches == 15
chamfer_tolerance_inches == 15
hole_tapped_equivalence_tolerance_inches == 20
match_extra_missing_correlation_tolerance_inches == 20

Config(equivalence) ==
    [hole_tolerance_inches |-> hole_tolerance_inches,
     thread_tolerance_mm |-> thread_tolerance_mm,
     pitch_tolerance |-> pitch_tolerance,
     fillet_tolerance_inches |-> fillet_tolerance_inches,
     chamfer_tolerance_inches |-> chamfer_tolerance_inches,
     match_hole_tapped_equivalence |-> equivalence,
     hole_tapped_equivalence_tolerance_inches |->
         hole_tapped_equivalence_tolerance_inches,
     match_extra_missing_correlation_tolerance_inches |->
         match_extra_missing_correlation_tolerance_inches]

\* `x or default`: a None or zero argument yields the default
OrDefault(arg, default) == IF Truthy(arg) THEN arg.n ELSE default

FeatureMatcherInit(args, cfg) ==
    [hole_tolerance |-> OrDefault(args.hole_tolerance, cfg.hole_tolerance_inches),
     thread_tolerance_mm |->
         OrDefault(args.thread_tolerance_mm, cfg.thread_tolerance_mm),
     fillet_tolerance |->
         OrDefault(args.fillet_tolerance, cfg.fillet_tolerance_inches),
     chamfer_tolerance |->
         OrDefault(args.chamfer_tolerance, cfg.chamfer_tolerance_inches),
     pitch_tolerance |-> OrDefault(args.pitch_tolerance, cfg.pitch_tolerance)]

NoArgs ==
    [hole_tolerance |-> PyNone, thread_tolerance_mm |-> PyNone,
     fillet_tolerance |-> PyNone, chamfer_tolerance |-> PyNone,
     pitch_tolerance |-> PyNone]

\* only the kinds that carry no geometry
FUTURE_TYPES_not_matchable_only == {"Slot", "Bend", "Note"}

FUTURE_TYPES ==
    {"Slot", "Bend", "Note", "CounterboreHole", "CountersinkHole", "Thread",
     "GDT", "SurfaceFinish", "Dimension", "Tolerance"}

(***************************************************************************)
(* Texts.  The matcher reads three things off a text: the metric size a    *)
(* threadSize holds (re.search of M<number>), the float a pitch text       *)
(* parses to, and whether the upper-cased raw text contains a keyword.     *)
(***************************************************************************)
\* re.search(r"M(\d+(?:\.\d+)?)", thread_size, re.IGNORECASE), group 1 as a float
MetricSizeIn(s) ==
    CASE s = "M10x1.5" -> PyFloat(1000)
      [] s = "M10X1.0" -> PyFloat(1000)
      [] s = "m8" -> PyFloat(800)
      [] OTHER -> PyNone

\* float(text); PyNone stands for ValueError
ParseFloat(s) ==
    CASE s = "1.5" -> PyFloat(150)
      [] s = "1.0" -> PyFloat(100)
      [] s = "3" -> PyFloat(300)
      [] s = "400" -> PyFloat(40000)
      [] s = "-5" -> PyFloat(-500)
      [] OTHER -> PyNone

\* str.upper()
Upper(s) ==
    CASE s = ".52 33/64 drill" -> ".52 33/64 DRILL"
      [] s = "M10x1.5 tap" -> "M10X1.5 TAP"
      [] s = "M10x1.5" -> "M10X1.5"
      [] OTHER -> s

\* needle in hay, both upper-cased
Contains(hay, needle) ==
    \/ needle = ""
    \/ needle = hay
    \/ needle = "DRILL" /\ hay \in {".52 33/64 DRILL", "DRILL THRU"}
    \/ needle = "M10X1.5" /\ hay = "M10X1.5 TAP"

(***************************************************************************)
(* MatchResult                                                             *)
(***************************************************************************)
\* the two positions stored in each other's field
MatchResult_swapped(status, ci, si, delta, notes) ==
    [status |-> status, drawing_callout |-> si, sw_feature |-> ci,
     delta |-> delta, notes |-> notes]

MatchResult(status, ci, si, delta, notes) ==
    [status |-> status, drawing_callout |-> ci, sw_feature |-> si,
     delta |-> delta, notes |-> notes]

NoMatch == [m |-> PyNone, score |-> Inf]

(***************************************************************************)
(* Field accessors for callout dicts                                       *)
(***************************************************************************)
NumberOrNone(v) == IF IsNumber(v) THEN PyFloat(v.n) ELSE PyNone
get_callout_diameter(callout) == NumberOrNone(Get(callout, "diameter"))
get_callout_depth(callout) == NumberOrNone(Get(callout, "depth"))
get_callout_radius(callout) == NumberOrNone(Get(callout, "radius"))
get_callout_chamfer_distance(callout) == NumberOrNone(Get(callout, "size"))

(***************************************************************************)
(* Kind-specific comparators.  Each returns m, a MatchResult or PyNone,    *)
(* and the score _match_by_type ranks by.                                  *)
(***************************************************************************)
\* callout_thread of _match_thread: the thread sub-dict, or one built from the
\* top-level threadSize / pitch when the callout has none
callout_thread_of(callout) ==
    LET t == Get(callout, "thread")
        ts == Get(callout, "threadSize")
        thread_size == IF Truthy(ts) THEN ts.s ELSE ""
        pitch_val == Get(callout, "pitch")
        size == MetricSizeIn(thread_size)
        base == [standard |-> PyStr("Metric"), nominalDiameterMm |-> size,
                 raw |-> PyStr(thread_size)]
        pitch == IF pitch_val.k = "str" THEN ParseFloat(pitch_val.s)
                 ELSE IF IsNumber(pitch_val) THEN PyFloat(pitch_val.n)
                 ELSE PyNone
    IN  IF Truthy(t) THEN t.d
        ELSE IF size = PyNone THEN EmptyDict
        ELSE IF pitch = PyNone THEN base
        ELSE [f \in DOMAIN base \cup {"pitch"} |->
                 IF f = "pitch" THEN pitch ELSE base[f]]

\* scores: 0.01 mm for a nominal-diameter delta; a TPI difference of 1 counts 1.0
match_thread(callout, ci, sw_feat, si, self) ==
    LET callout_thread == callout_thread_of(callout)
        sw_thread == IF Truthy(sw_feat.thread) THEN sw_feat.thread.d ELSE EmptyDict
        callout_nom == Get(callout_thread, "nominalDiameterMm")
        sw_nom == Get(sw_thread, "nominalDiameterMm")
        delta == callout_nom.n - sw_nom.n
        callout_pitch == Get(callout_thread, "pitch")
        sw_pitch == Get(sw_thread, "pitch")
        metric_pitch_plausible == 20 <= callout_pitch.n /\ callout_pitch.n <= 600
        callout_tpi == Get(callout_thread, "tpi")
        sw_tpi == Get(sw_thread, "tpi")
    IN  IF /\ Truthy(callout_nom)
           /\ Truthy(sw_nom)
           /\ FloatLeq(delta, self.thread_tolerance_mm)
        THEN IF /\ Truthy(callout_pitch)
                /\ Truthy(sw_pitch)
                /\ metric_pitch_plausible
                /\ ~FloatLeq(callout_pitch.n - sw_pitch.n, self.pitch_tolerance)
             THEN [m |-> MatchResult("tolerance", ci, si,
                                     PyFloat(callout_pitch.n - sw_pitch.n),
                                     "Thread pitch mismatch"),
                   score |-> Fin(delta)]
             ELSE [m |-> MatchResult("matched", ci, si, PyFloat(delta),
                                     "Thread match"),
                   score |-> Fin(delta)]
        ELSE IF Truthy(callout_tpi) /\ Truthy(sw_tpi)
        THEN IF callout_tpi.n = sw_tpi.n
             THEN [m |-> MatchResult("matched", ci, si, PyInt(0), "Thread match TPI"),
                   score |-> Fin(0)]
             ELSE [m |-> MatchResult("tolerance", ci, si,
                                     PyInt(callout_tpi.n - sw_tpi.n), "TPI mismatch"),
                   score |-> Fin(100 * Abs(callout_tpi.n - sw_tpi.n))]
        ELSE NoMatch

\* score (sort_key) in 0.00001 inch: abs(delta) + 0.01 * abs(depth difference)
match_hole(callout, ci, sw_feat, si, self) ==
    LET callout_dia == get_callout_diameter(callout)
        sw_dia == sw_feat.diameter_inches
        delta == callout_dia.n - sw_dia.n
        callout_depth == get_callout_depth(callout)
        sw_depth == sw_feat.depth_inches
        depth_penalty ==
            IF callout_depth # PyNone /\ sw_depth # PyNone
            THEN Abs(callout_depth.n - sw_depth.n)
            ELSE 0
        sort_key == 100 * Abs(delta) + depth_penalty
    IN  IF callout_dia = PyNone \/ sw_dia = PyNone THEN NoMatch
        ELSE IF FloatLeq(delta, self.hole_tolerance)
        THEN [m |-> MatchResult("matched", ci, si, PyFloat(delta), "Hole match"),
              score |-> Fin(sort_key)]
        ELSE IF FloatLeq(delta, self.hole_tolerance * 3)
        THEN [m |-> MatchResult("tolerance", ci, si, PyFloat(delta),
                                "Hole size mismatch"),
              score |-> Fin(sort_key)]
        ELSE NoMatch

match_fillet(callout, ci, sw_feat, si, self) ==
    LET callout_radius == get_callout_radius(callout)
        sw_radius == sw_feat.radius_inches
        delta == callout_radius.n - sw_radius.n
    IN  IF callout_radius = PyNone \/ sw_radius = PyNone THEN NoMatch
        ELSE IF FloatLeq(delta, self.fillet_tolerance)
        THEN [m |-> MatchResult("matched", ci, si, PyFloat(delta), "Fillet match"),
              score |-> Fin(delta)]
        ELSE NoMatch

match_chamfer(callout, ci, sw_feat, si, self) ==
    LET callout_dist == get_callout_chamfer_distance(callout)
        sw_dist == sw_feat.radius_inches
        delta == callout_dist.n - sw_dist.n
    IN  IF callout_dist = PyNone \/ sw_dist = PyNone THEN NoMatch
        ELSE IF FloatLeq(delta, self.chamfer_tolerance)
        THEN [m |-> MatchResult("matched", ci, si, PyFloat(delta), "Chamfer match"),
              score |-> Fin(delta)]
        ELSE NoMatch

try_match(callout, ci, sw_feat, si, callout_type, self) ==
    CASE callout_type = "TappedHole" -> match_thread(callout, ci, sw_feat, si, self)
      [] callout_type = "Hole" -> match_hole(callout, ci, sw_feat, si, self)
      [] callout_type = "Fillet" -> match_fillet(callout, ci, sw_feat, si, self)
      [] callout_type = "Chamfer" -> match_chamfer(callout, ci, sw_feat, si, self)
      [] OTHER -> NoMatch

\* the keyword bonus taken off the difference before the tolerance is applied
try_equivalent_hole_tapped_bonus_admits(callout, ci, sw_feat, si, cfg) ==
    LET callout_dia == get_callout_diameter(callout)
        sw_dia == sw_feat.diameter_inches
        tol == cfg.hole_tapped_equivalence_tolerance_inches
        delta == callout_dia.n - sw_dia.n
        raw == Get(callout, "raw")
        raw_upper == IF Truthy(raw) THEN Upper(raw.s) ELSE ""
        bonus == IF Contains(raw_upper, "DRILL") THEN 3 ELSE 0
    IN  IF callout_dia = PyNone \/ sw_dia = PyNone THEN NoMatch
        ELSE IF Max(0, Abs(delta) - bonus) > tol THEN NoMatch
        ELSE [m |-> MatchResult("matched", ci, si, PyFloat(delta), "Equivalent match"),
              score |-> Fin(Max(0, Abs(delta) - bonus))]

\* score in 0.001 inch: max(0, abs(delta) - bonus)
try_equivalent_hole_tapped(callout, ci, sw_feat, si, cfg) ==
    LET callout_dia == get_callout_diameter(callout)
        sw_dia == sw_feat.diameter_inches
        tol == cfg.hole_tapped_equivalence_tolerance_inches
        delta == callout_dia.n - sw_dia.n
        raw == Get(callout, "raw")
        raw_upper == IF Truthy(raw) THEN Upper(raw.s) ELSE ""
        sw_thread == IF Truthy(sw_feat.thread) THEN sw_feat.thread.d ELSE EmptyDict
        sw_raw == Get(sw_thread, "raw")
        sw_thread_raw == IF Truthy(sw_raw) THEN Upper(sw_raw.s) ELSE ""
        bonus == (IF Contains(raw_upper, "DRILL") THEN 3 ELSE 0)
                 + (IF sw_thread_raw # "" /\ Contains(raw_upper, sw_thread_raw)
                    THEN 3 ELSE 0)
    IN  IF callout_dia = PyNone \/ sw_dia = PyNone THEN NoMatch
        ELSE IF ~FloatLeq(delta, tol) THEN NoMatch
        ELSE [m |-> MatchResult("matched", ci, si, PyFloat(delta), "Equivalent match"),
              score |-> Fin(Max(0, Abs(delta) - bonus))]

(***************************************************************************)
(* The matching loops                                                      *)
(***************************************************************************)
NoBest == [m |-> PyNone, delta |-> Inf, idx |-> 0]

\* the loop over type_sw keeping the last of the features with the smallest
\* abs(score)
RECURSIVE best_of_type_latest_on_ties(_, _, _, _, _, _, _, _)
best_of_type_latest_on_ties(dc, sw, ci, callout_type, self, skip, j, best) ==
    IF j > Len(sw) THEN best
    ELSE IF sw[j].feature_type # callout_type \/ j \in skip
    THEN best_of_type_latest_on_ties(dc, sw, ci, callout_type, self, skip, j + 1,
                                     best)
    ELSE LET r == try_match(dc[ci], ci, sw[j], j, callout_type, self)
         IN  IF r.m # PyNone /\ ~AbsLess(best.delta, r.score)
             THEN best_of_type_latest_on_ties(dc, sw, ci, callout_type, self, skip,
                      j + 1, [m |-> r.m, delta |-> r.score, idx |-> j])
             ELSE best_of_type_latest_on_ties(dc, sw, ci, callout_type, self, skip,
                      j + 1, best)

\* _match_by_type, the loop over type_sw for one callout: the first feature
\* with the strictly smallest abs(score) among those that yield a result
RECURSIVE best_of_type(_, _, _, _, _, _, _, _)
best_of_type(dc, sw, ci, callout_type, self, skip, j, best) ==
    IF j > Len(sw) THEN best
    ELSE IF sw[j].feature_type # callout_type \/ j \in skip
    THEN best_of_type(dc, sw, ci, callout_type, self, skip, j + 1, best)
    ELSE LET r == try_match(dc[ci], ci, sw[j], j, callout_type, self)
         IN  IF r.m # PyNone /\ AbsLess(r.score, best.delta)
             THEN best_of_type(dc, sw, ci, callout_type, self, skip, j + 1,
                               [m |-> r.m, delta |-> r.score, idx |-> j])
             ELSE best_of_type(dc, sw, ci, callout_type, self, skip, j + 1, best)

\* _match_by_type, the loop over type_callouts
RECURSIVE match_by_type_from(_, _, _, _, _, _, _, _)
match_by_type_from(dc, sw, callout_type, exclude_sw, exclude_callout, self, i, acc) ==
    IF i > Len(dc) THEN acc
    ELSE IF Get(dc[i], "calloutType") # PyStr(callout_type) \/ i \in exclude_callout
    THEN match_by_type_from(dc, sw, callout_type, exclude_sw, exclude_callout,
                            self, i + 1, acc)
    ELSE LET best == best_of_type(dc, sw, i, callout_type, self,
                                  exclude_sw \cup acc.sw_used, 1, NoBest)
         IN  IF best.m # PyNone
             THEN match_by_type_from(dc, sw, callout_type, exclude_sw,
                      exclude_callout, self, i + 1,
                      [results |-> Append(acc.results, best.m),
                       sw_used |-> acc.sw_used \cup {best.idx},
                       callout_used |-> acc.callout_used \cup {i}])
             ELSE match_by_type_from(dc, sw, callout_type, exclude_sw,
                      exclude_callout, self, i + 1, acc)

NoneUsed == [results |-> <<>>, sw_used |-> {}, callout_used |-> {}]

match_by_type(dc, sw, callout_type, exclude_sw, exclude_callout, self) ==
    match_by_type_from(dc, sw, callout_type, exclude_sw, exclude_callout, self,
                       1, NoneUsed)

HoleKinds == {PyStr("Hole"), PyStr("TappedHole")}

\* _match_hole_tapped_equivalents, the loop over candidate_sw for one callout
RECURSIVE best_equivalent(_, _, _, _, _, _, _)
best_equivalent(dc, sw, ci, cfg, skip, j, best) ==
    IF j > Len(sw) THEN best
    ELSE IF \/ sw[j].feature_type \notin {"Hole", "TappedHole"}
            \/ j \in skip
            \/ Get(dc[ci], "calloutType") = PyStr(sw[j].feature_type)
    THEN best_equivalent(dc, sw, ci, cfg, skip, j + 1, best)
    ELSE LET r == try_equivalent_hole_tapped(dc[ci], ci, sw[j], j, cfg)
         IN  IF r.m # PyNone /\ r.score.k = "fin"
                /\ (best.delta.k = "inf" \/ r.score.n < best.delta.n)
             THEN best_equivalent(dc, sw, ci, cfg, skip, j + 1,
                                  [m |-> r.m, delta |-> r.score, idx |-> j])
             ELSE best_equivalent(dc, sw, ci, cfg, skip, j + 1, best)

\* _match_hole_tapped_equivalents, the loop over candidate_callouts
RECURSIVE equivalents_from(_, _, _, _, _, _, _)
equivalents_from(dc, sw, exclude_sw, exclude_callout, cfg, i, acc) ==
    IF i > Len(dc) THEN acc
    ELSE IF Get(dc[i], "calloutType") \notin HoleKinds \/ i \in exclude_callout
    THEN equivalents_from(dc, sw, exclude_sw, exclude_callout, cfg, i + 1, acc)
    ELSE LET best == best_equivalent(dc, sw, i, cfg, exclude_sw \cup acc.sw_used,
                                     1, NoBest)
         IN  IF best.m # PyNone /\ best.idx # 0
             THEN equivalents_from(dc, sw, exclude_sw, exclude_callout, cfg, i + 1,
                      [results |-> Append(acc.results, best.m),
                       sw_used |-> acc.sw_used \cup {best.idx},
                       callout_used |-> acc.callout_used \cup {i}])
             ELSE equivalents_from(dc, sw, exclude_sw, exclude_callout, cfg,
                                   i + 1, acc)

\* the fallback run over every item, consumed or not
match_hole_tapped_equivalents_all(dc, sw, exclude_sw, exclude_callout, cfg) ==
    equivalents_from(dc, sw, {}, {}, cfg, 1, NoneUsed)

match_hole_tapped_equivalents(dc, sw, exclude_sw, exclude_callout, cfg) ==
    equivalents_from(dc, sw, exclude_sw, exclude_callout, cfg, 1, NoneUsed)

\* _find_correlated_extra_callout: the position of the unmatched callout the
\* note names (0 when the note names none)
RECURSIVE correlated_from(_, _, _, _, _, _, _)
correlated_from(sw_feat, dc, used, tol, i, best, best_delta) ==
    IF i > Len(dc) THEN best
    ELSE LET c_dia == get_callout_diameter(dc[i])
             d == Abs(c_dia.n - sw_feat.diameter_inches.n)
             within == FloatLeq(c_dia.n - sw_feat.diameter_inches.n, tol)
         IN  IF \/ i \in used
                \/ Get(dc[i], "calloutType") \notin HoleKinds
                \/ c_dia = PyNone
             THEN correlated_from(sw_feat, dc, used, tol, i + 1, best, best_delta)
             ELSE IF within /\ (best_delta.k = "inf" \/ d < best_delta.n)
             THEN correlated_from(sw_feat, dc, used, tol, i + 1, i, Fin(d))
             ELSE correlated_from(sw_feat, dc, used, tol, i + 1, best, best_delta)

find_correlated_extra_callout(sw_feat, dc, used, cfg) ==
    IF sw_feat.feature_type \notin {"Hole", "TappedHole"} THEN 0
    ELSE IF sw_feat.diameter_inches = PyNone THEN 0
    ELSE correlated_from(sw_feat, dc, used,
             cfg.match_extra_missing_correlation_tolerance_inches, 1, 0, Inf)

IsFutureType(v) == v.k = "str" /\ v.s \in FUTURE_TYPES

\* match_all, the SKIPPED loops
RECURSIVE skipped_callouts(_, _, _)
skipped_callouts(dc, used, i) ==
    IF i > Len(dc) THEN <<>>
    ELSE IF i \notin used /\ IsFutureType(Get(dc[i], "calloutType"))
    THEN <<MatchResult("skipped", i, 0, PyNone, "Future type skipped")>>
         \o skipped_callouts(dc, used, i + 1)
    ELSE skipped_callouts(dc, used, i + 1)

RECURSIVE skipped_sw(_, _, _)
skipped_sw(sw, used, i) ==
    IF i > Len(sw) THEN <<>>
    ELSE IF i \notin used /\ sw[i].feature_type \in FUTURE_TYPES
    THEN <<MatchResult("skipped", 0, i, PyNone, "Future type skipped")>>
         \o skipped_sw(sw, used, i + 1)
    ELSE skipped_sw(sw, used, i + 1)

\* match_all, the MISSING loop
RECURSIVE missing_sw(_, _, _, _, _, _)
missing_sw(sw, dc, used_sw, used_callout, cfg, i) ==
    IF i > Len(sw) THEN <<>>
    ELSE IF i \notin used_sw
    THEN LET corr == find_correlated_extra_callout(sw[i], dc, used_callout, cfg)
         IN  <<MatchResult("missing", 0, i, PyNone,
                           IF corr # 0 THEN "not found on drawing; probable correlation"
                           ELSE "not found on drawing")>>
             \o missing_sw(sw, dc, used_sw, used_callout, cfg, i + 1)
    ELSE missing_sw(sw, dc, used_sw, used_callout, cfg, i + 1)

\* match_all, the EXTRA loop
RECURSIVE extra_callouts(_, _, _)
extra_callouts(dc, used, i) ==
    IF i > Len(dc) THEN <<>>
    ELSE IF i \notin used
    THEN <<MatchResult("extra", i, 0, PyNone, "not in SW model")>>
         \o extra_callouts(dc, used, i + 1)
    ELSE extra_callouts(dc, used, i + 1)

CalloutsOf(rs) == {rs[n].drawing_callout : n \in DOMAIN rs} \ {0}
SwOf(rs) == {rs[n].sw_feature : n \in DOMAIN rs} \ {0}

(***************************************************************************)
(* compute_scores                                                          *)
(***************************************************************************)
CountStatus(rs, st) == Cardinality({n \in DOMAIN rs : rs[n].status = st})

\* round(num / den, 4) in units of 0.0001, ties to even
Round4(num, den) ==
    LET q == (10000 * num) \div den
        r == (10000 * num) % den
    IN  IF 2 * r < den THEN q
        ELSE IF 2 * r > den THEN q + 1
        ELSE IF q % 2 = 0 THEN q ELSE q + 1

Rate(num, den) == IF den > 0 THEN Round4(num, den) ELSE 10000

\* Skipped results counted in both denominators
compute_scores_skipped_counted(rs) ==
    LET m == CountStatus(rs, "matched")
        mi == CountStatus(rs, "missing")
        ex == CountStatus(rs, "extra")
        sk == CountStatus(rs, "skipped")
        tf == CountStatus(rs, "tolerance")
    IN  [matched |-> m, missing |-> mi, extra |-> ex, skipped |-> sk,
         tolerance_fail |-> tf,
         instance_match_rate |-> Rate(m, m + mi + tf + sk),
         total_rate |-> Rate(m, m + mi + ex + tf + sk)]

compute_scores(rs) ==
    LET m == CountStatus(rs, "matched")
        mi == CountStatus(rs, "missing")
        ex == CountStatus(rs, "extra")
        sk == CountStatus(rs, "skipped")
        tf == CountStatus(rs, "tolerance")
        instance_denom == m + mi + tf
        total_denom == m + mi + ex + tf
    IN  [matched |-> m, missing |-> mi, extra |-> ex, skipped |-> sk,
         tolerance_fail |-> tf,
         instance_match_rate |-> Rate(m, instance_denom),
         total_rate |-> Rate(m, total_denom)]

(***************************************************************************)
(* Inputs of the matching specification.  No difference between a callout  *)
(* value and a feature value of the two universes equals a tolerance, and  *)
(* no two differ alike, so the rounding of the subtraction decides nothing *)
(* here; the pair specifications below cover the boundaries.               *)
(***************************************************************************)
MaxCallouts == 2
MaxSw == 2

SeqsUpTo(S, n) == UNION {[1..k -> S] : k \in 0..n}

MetricThread(nom, pitch, raw) ==
    PyDict([standard |-> PyStr("Metric"), nominalDiameterMm |-> PyFloat(nom),
            pitch |-> PyFloat(pitch), raw |-> PyStr(raw)])

\* location holds the text and, once expanded, the instance number appended to it
SwFeature(feature_type, diameter_inches, depth_inches, radius_inches, thread) ==
    [feature_type |-> feature_type, diameter_inches |-> diameter_inches,
     depth_inches |-> depth_inches, radius_inches |-> radius_inches,
     thread |-> thread, quantity |-> PyInt(1),
     location |-> [text |-> "", instance |-> PyNone]]

CalloutUniverse ==
    { [calloutType |-> PyStr("Hole"), raw |-> PyStr("DIA .500 THRU"),
       diameter |-> PyFloat(500)],
      [calloutType |-> PyStr("Hole"), raw |-> PyStr(".52 33/64 drill"),
       diameter |-> PyFloat(520), depth |-> PyFloat(250)],
      [calloutType |-> PyStr("TappedHole"), raw |-> PyStr("M10x1.5"),
       thread |-> MetricThread(1000, 150, "M10x1.5")],
      [calloutType |-> PyStr("TappedHole"), raw |-> PyStr("M10x1.5 tap"),
       threadSize |-> PyStr("M10X1.0"), pitch |-> PyStr("1.0"),
       diameter |-> PyFloat(510)],
      [calloutType |-> PyStr("Fillet"), raw |-> PyStr("R.125"),
       radius |-> PyFloat(125)],
      [calloutType |-> PyStr("Chamfer"), raw |-> PyStr(".060 X 45"),
       size |-> PyFloat(60)],
      [calloutType |-> PyStr("Slot"), raw |-> PyStr("SLOT")] }

SwUniverse ==
    { SwFeature("Hole", PyFloat(504), PyNone, PyNone, PyNone),
      SwFeature("Hole", PyFloat(532), PyFloat(250), PyNone, PyNone),
      SwFeature("TappedHole", PyFloat(531), PyNone, PyNone,
                MetricThread(1000, 150, "M10x1.5")),
      SwFeature("Fillet", PyNone, PyNone, PyFloat(130), PyNone),
      SwFeature("Chamfer", PyNone, PyNone, PyFloat(62), PyNone),
      SwFeature("Slot", PyNone, PyNone, PyNone, PyNone) }

(***************************************************************************)
(* match_all, stage by stage, then compute_scores                          *)
(***************************************************************************)
IdleExpansion ==
    /\ callouts = <<>>
    /\ features = <<>>
    /\ expanded = <<>>
    /\ expanded_sw = <<>>

IdleValidation ==
    /\ repaired = <<>>
    /\ verdicts = <<>>
    /\ stats = PyNone

\* no normalization under way
NoNormalizer ==
    /\ raw_texts = <<>>
    /\ drawing_units = PyNone
    /\ title_block_text = ""
    /\ normalized = <<>>

\* match_all, the expanders or the validator called on their own
NoCaller ==
    /\ path = "none"
    /\ sw_data = PyNone
    /\ diff = PyNone

MatchStart ==
    /\ pc = "TappedHole"
    /\ results = <<>>
    /\ used_sw_indices = {}
    /\ used_callout_indices = {}
    /\ scores = PyNone

InitMatch ==
    /\ NoNormalizer
    /\ NoCaller
    /\ fp_round = 0
    /\ drawing_callouts \in SeqsUpTo(CalloutUniverse, MaxCallouts)
    /\ sw_features \in SeqsUpTo(SwUniverse, MaxSw)
    /\ default_config \in {Config(TRUE), Config(FALSE)}
    /\ init_args = NoArgs
    /\ matcher = FeatureMatcherInit(NoArgs, default_config)
    /\ MatchStart
    /\ IdleExpansion
    /\ IdleValidation

AfterType(t) ==
    CASE t = "TappedHole" -> "Hole"
      [] t = "Hole" -> "Fillet"
      [] t = "Fillet" -> "Chamfer"
      [] t = "Chamfer" -> "equivalents"

MatchInputsUnchanged ==
    UNCHANGED <<fp_round, drawing_callouts, sw_features, matcher, init_args, default_config,
                callouts, features, expanded, expanded_sw, repaired, verdicts,
                stats, path, sw_data, diff, raw_texts, drawing_units, title_block_text,
                normalized>>

\* matcher.py 123-133: one pass of the loop over the four matched kinds
MatchByType ==
    /\ pc \in {"TappedHole", "Hole", "Fillet", "Chamfer"}
    /\ LET r == match_by_type(drawing_callouts, sw_features, pc, used_sw_indices,
                              used_callout_indices, matcher)
       IN  /\ results' = results \o r.results
           /\ used_sw_indices' = used_sw_indices \cup r.sw_used
           /\ used_callout_indices' = used_callout_indices \cup r.callout_used
    /\ pc' = AfterType(pc)
    /\ UNCHANGED scores
    /\ MatchInputsUnchanged

\* matcher.py 135-147
MatchEquivalents ==
    /\ pc = "equivalents"
    /\ LET r == IF default_config.match_hole_tapped_equivalence
                THEN match_hole_tapped_equivalents(drawing_callouts, sw_features,
                         used_sw_indices, used_callout_indices, default_config)
                ELSE NoneUsed
       IN  /\ results' = results \o r.results
           /\ used_sw_indices' = used_sw_indices \cup r.sw_used
           /\ used_callout_indices' = used_callout_indices \cup r.callout_used
    /\ pc' = "skip_callouts"
    /\ UNCHANGED scores
    /\ MatchInputsUnchanged

\* matcher.py 150-157
SkipFutureCallouts ==
    /\ pc = "skip_callouts"
    /\ LET r == skipped_callouts(drawing_callouts, used_callout_indices, 1)
       IN  /\ results' = results \o r
           /\ used_callout_indices' = used_callout_indices \cup CalloutsOf(r)
    /\ pc' = "skip_sw"
    /\ UNCHANGED <<used_sw_indices, scores>>
    /\ MatchInputsUnchanged

\* matcher.py 159-166
SkipFutureSw ==
    /\ pc = "skip_sw"
    /\ LET r == skipped_sw(sw_features, used_sw_indices, 1)
       IN  /\ results' = results \o r
           /\ used_sw_indices' = used_sw_indices \cup SwOf(r)
    /\ pc' = "missing"
    /\ UNCHANGED <<used_callout_indices, scores>>
    /\ MatchInputsUnchanged

\* matcher.py 168-183
AddMissing ==
    /\ pc = "missing"
    /\ results' = results \o missing_sw(sw_features, drawing_callouts,
                                        used_sw_indices, used_callout_indices,
                                        default_config, 1)
    /\ pc' = "extra"
    /\ UNCHANGED <<used_sw_indices, used_callout_indices, scores>>
    /\ MatchInputsUnchanged

\* matcher.py 185-194
AddExtra ==
    /\ pc = "extra"
    /\ results' = results \o extra_callouts(drawing_callouts, used_callout_indices, 1)
    /\ pc' = "returned"
    /\ UNCHANGED <<used_sw_indices, used_callout_indices, scores>>
    /\ MatchInputsUnchanged

\* matcher.py 597-630, on the list match_all returned
ComputeScores ==
    /\ pc = "returned"
    /\ path # "compare_drawing"
    /\ scores' = compute_scores(results)
    /\ pc' = "scored"
    /\ UNCHANGED <<results, used_sw_indices, used_callout_indices>>
    /\ MatchInputsUnchanged

NextMatch ==
    \/ MatchByType
    \/ MatchEquivalents
    \/ SkipFutureCallouts
    \/ SkipFutureSw
    \/ AddMissing
    \/ AddExtra
    \/ ComputeScores

SpecMatch == InitMatch /\ [][NextMatch]_vars

(***************************************************************************)
(* Properties of match_all                                                 *)
(***************************************************************************)
Returned == pc \in {"returned", "scored"}

ResultsWithCallout(i) == {n \in DOMAIN results : results[n].drawing_callout = i}
ResultsWithSw(i) == {n \in DOMAIN results : results[n].sw_feature = i}

\* C1: once match_all has returned, every callout position and every feature
\* position of its inputs is named by exactly one MatchResult
C1_ExactlyOneResult ==
    Returned =>
        /\ \A i \in 1..Len(drawing_callouts) : Cardinality(ResultsWithCallout(i)) = 1
        /\ \A i \in 1..Len(sw_features) : Cardinality(ResultsWithSw(i)) = 1

\* a run where same-kind matching and the cross-kind fallback each formed a pair
C1_Witness ==
    /\ Returned
    /\ \E n, k \in DOMAIN results :
          /\ results[n].notes = "Equivalent match"
          /\ results[k].notes \in {"Hole match", "Thread match"}

HasCallout(r) == r.drawing_callout # 0
HasSw(r) == r.sw_feature # 0

\* C2 as stated: Missing has only a feature, Extra only a callout, and Matched,
\* ToleranceFail and Skipped have both
C2_Original ==
    Returned =>
        \A n \in DOMAIN results :
            LET r == results[n]
            IN  CASE r.status = "missing" -> ~HasCallout(r) /\ HasSw(r)
                  [] r.status = "extra" -> HasCallout(r) /\ ~HasSw(r)
                  [] OTHER -> HasCallout(r) /\ HasSw(r)

\* C2 amended: Missing has only a feature, Extra only a callout, Matched and
\* ToleranceFail have both, and Skipped has exactly one of the two
C2_PresenceShape ==
    Returned =>
        \A n \in DOMAIN results :
            LET r == results[n]
            IN  CASE r.status = "missing" -> ~HasCallout(r) /\ HasSw(r)
                  [] r.status = "extra" -> HasCallout(r) /\ ~HasSw(r)
                  [] r.status = "skipped" -> HasCallout(r) # HasSw(r)
                  [] r.status \in {"matched", "tolerance"} ->
                         HasCallout(r) /\ HasSw(r)

\* a skipped callout and a skipped feature in one returned list
C2_Witness ==
    /\ Returned
    /\ \E n, k \in DOMAIN results :
          /\ results[n].status = "skipped" /\ HasCallout(results[n])
          /\ results[k].status = "skipped" /\ HasSw(results[k])

(***************************************************************************)
(* match_all on one Hole callout and one Hole feature                      *)
(***************************************************************************)
HoleSpan == 50

HoleCallout(dia, depth) ==
    DictOf([calloutType |-> PyStr("Hole"), raw |-> PyStr("DIA .500 THRU"),
            diameter |-> PyFloat(dia), depth |-> depth])

InitHolePair ==
    /\ NoNormalizer
    /\ NoCaller
    /\ fp_round \in {-1, 0, 1}
    /\ \E depth \in {Absent, PyFloat(250)} :
          drawing_callouts = <<HoleCallout(500, depth)>>
    /\ \E dia \in (500 - HoleSpan)..(500 + HoleSpan),
          depth \in {PyNone, PyFloat(100)} :
          sw_features = <<SwFeature("Hole", PyFloat(dia), depth, PyNone, PyNone)>>
    /\ default_config = Config(TRUE)
    /\ \E tol \in {PyNone, PyFloat(0), PyFloat(10)} :
          init_args = [NoArgs EXCEPT !.hole_tolerance = tol]
    /\ matcher = FeatureMatcherInit(init_args, default_config)
    /\ MatchStart
    /\ IdleExpansion
    /\ IdleValidation

SpecHolePair == InitHolePair /\ [][NextMatch]_vars

PairDelta == drawing_callouts[1].diameter.n - sw_features[1].diameter_inches.n

Unpaired ==
    /\ Len(results) = 2
    /\ {results[n].status : n \in DOMAIN results} = {"missing", "extra"}
    /\ \A n \in DOMAIN results :
          /\ results[n].status = "missing" =>
                 results[n].sw_feature = 1 /\ results[n].drawing_callout = 0
          /\ results[n].status = "extra" =>
                 results[n].drawing_callout = 1 /\ results[n].sw_feature = 0

PairedAs(status, delta) ==
    /\ Len(results) = 1
    /\ results[1].status = status
    /\ results[1].drawing_callout = 1
    /\ results[1].sw_feature = 1
    /\ results[1].delta.n = delta

\* C3: one Hole callout against one Hole feature is Matched when
\* |delta| <= hole_tolerance, ToleranceFail when hole_tolerance < |delta| <=
\* 3 * hole_tolerance, and otherwise left as Extra and Missing; the delta
\* reported is callout diameter - feature diameter, signed
C3_HoleBands ==
    Returned =>
        IF Abs(PairDelta) <= matcher.hole_tolerance
        THEN PairedAs("matched", PairDelta)
        ELSE IF Abs(PairDelta) <= 3 * matcher.hole_tolerance
        THEN PairedAs("tolerance", PairDelta)
        ELSE Unpaired

(***************************************************************************)
(* match_all on one TappedHole callout and one TappedHole feature          *)
(***************************************************************************)
NomSpan == 11
PitchSpan == 2

ThreadDict(nom, pitch, tpi) ==
    PyDict(DictOf([standard |-> PyStr("Metric"), nominalDiameterMm |-> nom,
                   pitch |-> pitch, tpi |-> tpi]))

CalloutNominals == {PyFloat(0), PyFloat(800)}
                       \cup {PyFloat(n) : n \in (1000 - NomSpan)..(1000 + NomSpan)}
CalloutPitches ==
    {Absent, PyFloat(0), PyFloat(19), PyFloat(20), PyFloat(100), PyFloat(600),
     PyFloat(601), PyFloat(5500)}
        \cup {PyFloat(n) : n \in (150 - PitchSpan)..(150 + PitchSpan)}

ThreadCallouts ==
    { [calloutType |-> PyStr("TappedHole"), raw |-> PyStr("M10x1.5"),
       thread |-> ThreadDict(nom, pitch, Absent)] :
          nom \in CalloutNominals, pitch \in CalloutPitches }
    \cup
    { [calloutType |-> PyStr("TappedHole"), raw |-> PyStr("M10x1.5"),
       thread |-> ThreadDict(PyFloat(1000), pitch, PyInt(16))] :
          pitch \in {Absent, PyFloat(100)} }
    \cup
    { DictOf([calloutType |-> PyStr("TappedHole"), raw |-> PyStr("M10x1.5"),
              threadSize |-> PyStr("M10x1.5"), pitch |-> pitch]) :
          pitch \in {Absent, PyNone, PyStr("1.5"), PyStr("1.0"), PyStr("TYP"),
                     PyFloat(100)} }
    \cup
    { [calloutType |-> PyStr("TappedHole"), raw |-> PyStr("3/8-16 UNC"),
       threadSize |-> PyStr("3/8-16 UNC")] }

ThreadFeatures ==
    { SwFeature("TappedHole", PyFloat(335), PyNone, PyNone,
                ThreadDict(nom, pitch, tpi)) :
          nom \in {Absent, PyFloat(0), PyFloat(1000)},
          pitch \in {Absent, PyFloat(0), PyFloat(100), PyFloat(150)},
          tpi \in {Absent, PyInt(13), PyInt(16)} }

InitThreadPair ==
    /\ NoNormalizer
    /\ NoCaller
    /\ fp_round \in {-1, 0, 1}
    /\ \E c \in ThreadCallouts : drawing_callouts = <<c>>
    /\ \E f \in ThreadFeatures : sw_features = <<f>>
    /\ default_config = Config(TRUE)
    /\ init_args = NoArgs
    /\ matcher = FeatureMatcherInit(NoArgs, default_config)
    /\ MatchStart
    /\ IdleExpansion
    /\ IdleValidation

SpecThreadPair == InitThreadPair /\ [][NextMatch]_vars

\* the thread values the two sides of the pair declare
PairCalloutThread == callout_thread_of(drawing_callouts[1])
PairSwThread == sw_features[1].thread.d
Present(v) == v # PyNone /\ v.n # 0
CalloutNom == Get(PairCalloutThread, "nominalDiameterMm")
SwNom == Get(PairSwThread, "nominalDiameterMm")
CalloutPitch == Get(PairCalloutThread, "pitch")
SwPitch == Get(PairSwThread, "pitch")

DiametersAgree ==
    /\ Present(CalloutNom)
    /\ Present(SwNom)
    /\ Abs(CalloutNom.n - SwNom.n) <= matcher.thread_tolerance_mm

PitchesDisagree ==
    /\ Present(CalloutPitch)
    /\ Present(SwPitch)
    /\ 20 <= CalloutPitch.n
    /\ CalloutPitch.n <= 600
    /\ Abs(CalloutPitch.n - SwPitch.n) > matcher.pitch_tolerance

\* C4: a TappedHole callout and feature whose nominal diameters differ by at
\* most thread_tolerance_mm are ToleranceFail when both pitches are present,
\* the callout's pitch is plausible (0.2 to 6.0) and the pitches differ by more
\* than pitch_tolerance, and Matched in every other case
C4_ThreadPitch ==
    (Returned /\ DiametersAgree) =>
        /\ Len(results) = 1
        /\ results[1].drawing_callout = 1
        /\ results[1].sw_feature = 1
        /\ results[1].status = IF PitchesDisagree THEN "tolerance" ELSE "matched"

(***************************************************************************)
(* compute_scores on any list of results                                   *)
(***************************************************************************)
MaxResults == 5

ResultOfStatus(st) ==
    CASE st = "matched" -> MatchResult(st, 1, 1, PyFloat(0), "Hole match")
      [] st = "tolerance" -> MatchResult(st, 1, 1, PyFloat(20), "Hole size mismatch")
      [] st = "missing" -> MatchResult(st, 0, 1, PyNone, "not found on drawing")
      [] st = "extra" -> MatchResult(st, 1, 0, PyNone, "not in SW model")
      [] st = "skipped" -> MatchResult(st, 1, 0, PyNone, "Future type skipped")

Statuses == {"matched", "missing", "extra", "tolerance", "skipped"}

InitScore ==
    /\ NoNormalizer
    /\ NoCaller
    /\ fp_round = 0
    /\ drawing_callouts = <<>>
    /\ sw_features = <<>>
    /\ default_config = Config(TRUE)
    /\ init_args = NoArgs
    /\ matcher = FeatureMatcherInit(NoArgs, default_config)
    /\ results \in SeqsUpTo({ResultOfStatus(st) : st \in Statuses}, MaxResults)
    /\ pc = "returned"
    /\ used_sw_indices = {}
    /\ used_callout_indices = {}
    /\ scores = PyNone
    /\ IdleExpansion
    /\ IdleValidation

NextScore == ComputeScores

SpecScore == InitScore /\ [][NextScore]_vars

NumWith(st) == Cardinality({n \in DOMAIN results : results[n].status = st})
InstanceDenom == NumWith("matched") + NumWith("missing") + NumWith("tolerance")
TotalDenom == InstanceDenom + NumWith("extra")
IsNotSkipped(r) == r.status # "skipped"

\* the rate is the quotient itself (1.0 on a zero denominator)
ExactRate(rate, den) ==
    IF den = 0 THEN rate = 10000 ELSE rate * den = 10000 * NumWith("matched")

\* the rate is the multiple of 0.0001 nearest the quotient (1.0 on a zero denominator)
RoundedRate(rate, den) ==
    IF den = 0 THEN rate = 10000
    ELSE 2 * Abs(rate * den - 10000 * NumWith("matched")) <= den

SkippedIgnored ==
    LET without == compute_scores(SelectSeq(results, IsNotSkipped))
    IN  /\ without.instance_match_rate = scores.instance_match_rate
        /\ without.total_rate = scores.total_rate

MaxItems == 3
MaxQty == 3

\* numbers that are neither lengths nor rates (quantity, angle) are floats
\* in hundredths
TruncDiv(n, d) == IF n >= 0 THEN n \div d ELSE -((-n) \div d)

\* int(s) on text: the value, or None where Python raises ValueError
ParseInt(s) ==
    CASE s = "3" -> PyInt(3)
      [] s = "1" -> PyInt(1)
      [] s = "0" -> PyInt(0)
      [] OTHER -> PyNone

\* int(v): the value, or None where Python raises ValueError or TypeError
IntOf(v) ==
    CASE v.k = "int" -> v
      [] v.k = "float" -> PyInt(TruncDiv(v.n, 100))
      [] v.k = "bool" -> PyInt(IF v.b THEN 1 ELSE 0)
      [] v.k = "str" -> ParseInt(v.s)
      [] OTHER -> PyNone

\* the count the loop runs with, without the lower clamp
effective_quantity_unclamped(qty) ==
    LET n == IntOf(qty)
    IN  IF n = PyNone THEN 1 ELSE n.n

\* the try block of both expanders: int(qty), 1 when below 1 or not convertible
effective_quantity(qty) ==
    LET n == IntOf(qty)
    IN  IF n = PyNone THEN 1 ELSE IF n.n < 1 THEN 1 ELSE n.n

\* callout.get("quantity", 1)
QuantityOf(callout) ==
    IF "quantity" \in DOMAIN callout THEN callout.quantity ELSE PyInt(1)

\* the instances one callout contributes
callout_instances(callout) ==
    LET qty == effective_quantity(QuantityOf(callout))
    IN  IF qty = 1
        THEN << SetKey(SetKey(callout, "_instance_index", PyInt(0)),
                       "_original_quantity", PyInt(1)) >>
        ELSE [i \in 1..qty |->
                SetKey(SetKey(SetKey(callout, "quantity", PyInt(1)),
                              "_instance_index", PyInt(i - 1)),
                       "_original_quantity", PyInt(qty))]

RECURSIVE expand_drawing_callouts(_)
expand_drawing_callouts(cs) ==
    IF cs = <<>> THEN <<>>
    ELSE callout_instances(Head(cs)) \o expand_drawing_callouts(Tail(cs))

\* the instances one SwFeature contributes
feature_instances(feat) ==
    LET qty == effective_quantity(feat.quantity)
    IN  IF qty = 1
        THEN <<feat>>
        ELSE [i \in 1..qty |->
                [feature_type |-> feat.feature_type,
                 diameter_inches |-> feat.diameter_inches,
                 depth_inches |-> feat.depth_inches,
                 radius_inches |-> feat.radius_inches,
                 thread |-> IF Truthy(feat.thread) THEN feat.thread ELSE PyNone,
                 quantity |-> PyInt(1),
                 location |-> IF feat.location.text # ""
                              THEN [text |-> feat.location.text, instance |-> PyInt(i - 1)]
                              ELSE [text |-> "instance_", instance |-> PyInt(i - 1)]]]

RECURSIVE expand_sw_features(_)
expand_sw_features(fs) ==
    IF fs = <<>> THEN <<>>
    ELSE feature_instances(Head(fs)) \o expand_sw_features(Tail(fs))

IdleMatching ==
    /\ fp_round = 0
    /\ drawing_callouts = <<>>
    /\ sw_features = <<>>
    /\ default_config = Config(TRUE)
    /\ init_args = NoArgs
    /\ matcher = FeatureMatcherInit(NoArgs, default_config)
    /\ results = <<>>
    /\ used_sw_indices = {}
    /\ used_callout_indices = {}
    /\ scores = PyNone

\* the quantity values an item can carry: absent, None, integers, floats, text
QuantityValues ==
    {Absent, PyNone, PyFloat(270), PyFloat(50), PyFloat(100),
     PyStr("3"), PyStr("1"), PyStr("TYP")}
        \cup {PyInt(n) : n \in -1..MaxQty}

QuantityCallout(q) ==
    DictOf([calloutType |-> PyStr("Hole"), raw |-> PyStr("DIA .500 THRU"),
            diameter |-> PyFloat(500), quantity |-> q])

\* SwFeature.quantity defaults to 1 where the source dict names none
QuantityFeature(shape, q) ==
    [shape EXCEPT !.quantity = IF q = Absent THEN PyInt(1) ELSE q]

FeatureShapes ==
    { [SwFeature("Hole", PyFloat(500), PyNone, PyNone, PyNone)
          EXCEPT !.location = [text |-> "Hole1", instance |-> PyNone]],
      SwFeature("TappedHole", PyFloat(335), PyNone, PyNone, PyDict(EmptyDict)) }

InitExpand ==
    /\ NoNormalizer
    /\ NoCaller
    /\ IdleMatching
    /\ IdleValidation
    /\ pc = "expand_callouts"
    /\ \E qs \in SeqsUpTo(QuantityValues, MaxItems) :
         /\ callouts = [i \in DOMAIN qs |-> QuantityCallout(qs[i])]
         /\ \E shape \in FeatureShapes :
              features = [i \in DOMAIN qs |-> QuantityFeature(shape, qs[i])]
    /\ expanded = <<>>
    /\ expanded_sw = <<>>

ExpansionOnly ==
    UNCHANGED <<fp_round, drawing_callouts, sw_features, matcher, init_args, default_config,
                results, used_sw_indices, used_callout_indices, scores,
                callouts, features, repaired, verdicts, stats, path, sw_data, diff,
                raw_texts, drawing_units, title_block_text,
                normalized>>

ExpandDrawingCallouts ==
    /\ pc = "expand_callouts"
    /\ expanded' = expand_drawing_callouts(callouts)
    /\ pc' = "expand_sw"
    /\ UNCHANGED expanded_sw
    /\ ExpansionOnly

ExpandSwFeatures ==
    /\ pc = "expand_sw"
    /\ expanded_sw' = expand_sw_features(features)
    /\ pc' = "expanded"
    /\ UNCHANGED expanded
    /\ ExpansionOnly

NextExpand ==
    \/ ExpandDrawingCallouts
    \/ ExpandSwFeatures

SpecExpand == InitExpand /\ [][NextExpand]_vars

IsInteger(v) == v.k = "int"

RECURSIVE SumOf(_, _)
SumOf(ns, n) == IF n = 0 THEN 0 ELSE ns[n] + SumOf(ns, n - 1)

\* the sum of the declared quantities, an absent one being the default 1
DeclaredSum(qs) == SumOf([i \in DOMAIN qs |-> qs[i].n], Len(qs))

\* a quantity as counted: the integer part of a number, or the value of
\* integer text, when that is at least 1; otherwise 1
Counted(v) ==
    CASE v.k = "int" /\ v.n >= 1 -> v.n
      [] v.k = "float" /\ v.n >= 100 -> v.n \div 100
      [] v.k = "str" /\ ParseInt(v.s) # PyNone ->
            IF ParseInt(v.s).n >= 1 THEN ParseInt(v.s).n ELSE 1
      [] OTHER -> 1

CountedSum(qs) == SumOf([i \in DOMAIN qs |-> Counted(qs[i])], Len(qs))

CalloutQuantities == [i \in DOMAIN callouts |-> QuantityOf(callouts[i])]
FeatureQuantities == [i \in DOMAIN features |-> features[i].quantity]

IsOne(v) == (v.k = "int" /\ v.n = 1) \/ (v.k = "float" /\ v.n = 100)

\* C7: every item of an expander's output has quantity equal to 1, whatever
\* the input quantity was
C7_AllQuantityOne ==
    pc = "expanded" =>
        /\ \A i \in DOMAIN expanded : IsOne(QuantityOf(expanded[i]))
        /\ \A i \in DOMAIN expanded_sw : IsOne(expanded_sw[i].quantity)

(***************************************************************************)
(* validator: validate_callout and validate_and_repair_all                 *)
(***************************************************************************)
MaxBatch == 3

REQUIRED_FIELDS ==
    [Hole |-> <<"diameter">>, TappedHole |-> <<"threadSize">>,
     CounterboreHole |-> <<"cboreDiameter">>, CountersinkHole |-> <<"csinkDiameter">>,
     Fillet |-> <<"radius">>, Chamfer |-> <<"size">>, Thread |-> <<"threadSize">>,
     GDT |-> <<"gdtType">>, SurfaceFinish |-> <<"roughness">>,
     Dimension |-> <<"nominal">>, Tolerance |-> <<>>, Slot |-> <<>>,
     Bend |-> <<>>, Note |-> <<>>, Unknown |-> <<>>]

VALID_CALLOUT_TYPES == DOMAIN REQUIRED_FIELDS

\* the three field sets, in the order the loops visit them
POSITIVE_NUMERIC_FIELDS ==
    <<"diameter", "radius", "size", "depth", "cboreDiameter", "cboreDepth",
      "csinkDiameter", "nominal", "roughness", "toleranceValue">>
ANGLE_FIELDS == <<"csinkAngle", "angle">>
QUANTITY_FIELDS == <<"quantity">>

is_valid_callout_type(callout_type) ==
    callout_type.k = "str" /\ callout_type.s \in VALID_CALLOUT_TYPES

get_required_fields(callout_type) ==
    IF is_valid_callout_type(callout_type) THEN REQUIRED_FIELDS[callout_type.s] ELSE <<>>

\* not s.strip()
IsBlank(s) == s \in {"", " "}

\* one entry of the "; "-joined message: its text, the field and the value it quotes
ErrorEntry(msg, field, value) == [msg |-> msg, field |-> field, value |-> value]

RECURSIVE Compact(_)
Compact(es) ==
    IF es = <<>> THEN <<>>
    ELSE IF Head(es) = PyNone THEN Compact(Tail(es))
    ELSE <<Head(es)>> \o Compact(Tail(es))

\* check 1
raw_errors(callout) ==
    LET raw == GetOr(callout, "raw", PyStr(""))
    IN  IF ~Truthy(raw) THEN <<ErrorEntry("missing 'raw' field", "raw", PyNone)>>
        ELSE IF raw.k # "str" THEN <<ErrorEntry("missing 'raw' field", "raw", PyNone)>>
        ELSE IF IsBlank(raw.s) THEN <<ErrorEntry("missing 'raw' field", "raw", PyNone)>>
        ELSE <<>>

\* check 2
type_errors(callout) ==
    LET callout_type == GetOr(callout, "calloutType", PyStr(""))
    IN  IF ~Truthy(callout_type)
        THEN <<ErrorEntry("missing 'calloutType'", "calloutType", PyNone)>>
        ELSE IF ~is_valid_callout_type(callout_type)
        THEN <<ErrorEntry("unknown calloutType", "calloutType", callout_type)>>
        ELSE <<>>

\* check 3 left out
required_errors_unchecked(callout) == <<>>

\* check 3
required_errors(callout) ==
    LET callout_type == GetOr(callout, "calloutType", PyStr(""))
        required == get_required_fields(callout_type)
        missing(value) == value = PyNone \/ (value.k = "str" /\ IsBlank(value.s))
    IN  IF Truthy(callout_type) /\ is_valid_callout_type(callout_type)
        THEN Compact([i \in DOMAIN required |->
                 IF missing(Get(callout, required[i]))
                 THEN ErrorEntry("missing required field", required[i], callout_type)
                 ELSE PyNone])
        ELSE <<>>

\* check 4
numeric_errors(callout) ==
    Compact([i \in DOMAIN POSITIVE_NUMERIC_FIELDS |->
        LET value == Get(callout, POSITIVE_NUMERIC_FIELDS[i])
        IN  IF value = PyNone THEN PyNone
            ELSE IF IsNumber(value) /\ value.n < 0
            THEN ErrorEntry("negative value", POSITIVE_NUMERIC_FIELDS[i], value)
            ELSE PyNone])

\* float(value) if isinstance(value, str) else value, in hundredths; None
\* where the conversion or the comparison raises
AngleOf(value) ==
    CASE value.k = "str" -> ParseFloat(value.s)
      [] value.k = "int" -> PyFloat(100 * value.n)
      [] value.k = "float" -> value
      [] OTHER -> PyNone

\* check 5
angle_errors(callout) ==
    Compact([i \in DOMAIN ANGLE_FIELDS |->
        LET value == Get(callout, ANGLE_FIELDS[i])
            angle == AngleOf(value)
        IN  IF value = PyNone THEN PyNone
            ELSE IF angle = PyNone THEN PyNone
            ELSE IF ~(0 <= angle.n /\ angle.n <= 36000)
            THEN ErrorEntry("angle out of range", ANGLE_FIELDS[i], value)
            ELSE PyNone])

\* check 6
quantity_errors(callout) ==
    Compact([i \in DOMAIN QUANTITY_FIELDS |->
        LET value == Get(callout, QUANTITY_FIELDS[i])
            qty == IntOf(value)
        IN  IF value = PyNone THEN PyNone
            ELSE IF qty = PyNone
            THEN ErrorEntry("non-integer quantity", QUANTITY_FIELDS[i], value)
            ELSE IF qty.n <= 0
            THEN ErrorEntry("non-positive quantity", QUANTITY_FIELDS[i], value)
            ELSE PyNone])

AllErrors(callout) ==
    raw_errors(callout) \o type_errors(callout) \o required_errors(callout)
        \o numeric_errors(callout) \o angle_errors(callout) \o quantity_errors(callout)

\* the list stops at the first failure
validation_errors_first_only(callout) ==
    IF AllErrors(callout) = <<>> THEN <<>> ELSE <<Head(AllErrors(callout))>>

\* errors, after the six checks
validation_errors(callout) == AllErrors(callout)

\* (repaired_callout, is_valid, error_message); the message is the sequence
\* of its "; "-separated entries
validate_callout(callout) ==
    LET errors == validation_errors(callout)
    IN  IF errors # <<>>
        THEN [callout |->
                 SetKey(SetKey(SetKey(SetKey(callout,
                     "_original_calloutType", GetOr(callout, "calloutType", PyStr(""))),
                     "calloutType", PyStr("Unknown")),
                     "_invalid", PyBool(TRUE)),
                     "_validation_error", errors),
              is_valid |-> FALSE, error |-> errors]
        ELSE [callout |-> callout, is_valid |-> TRUE, error |-> PyNone]

\* stats["errors"][e] = stats["errors"].get(e, 0) + 1 for every entry
RECURSIVE count_errors(_, _)
count_errors(hist, es) ==
    IF es = <<>> THEN hist
    ELSE count_errors(SetKey(hist, Head(es), GetOr(hist, Head(es), 0) + 1), Tail(es))

\* one pass of the loop, an invalid callout left out of the repaired list
validate_and_repair_step_dropping(acc, callout) ==
    LET v == validate_callout(callout)
    IN  IF v.is_valid
        THEN [repaired |-> Append(acc.repaired, v.callout),
              verdicts |-> Append(acc.verdicts, [is_valid |-> TRUE, error |-> v.error]),
              stats |-> [acc.stats EXCEPT !.valid = @ + 1]]
        ELSE [repaired |-> acc.repaired,
              verdicts |-> Append(acc.verdicts, [is_valid |-> FALSE, error |-> v.error]),
              stats |-> [acc.stats EXCEPT !.invalid = @ + 1,
                                          !.errors = count_errors(@, v.error)]]

\* one pass of the loop of validate_and_repair_all
validate_and_repair_step(acc, callout) ==
    LET v == validate_callout(callout)
    IN  [repaired |-> Append(acc.repaired, v.callout),
         verdicts |-> Append(acc.verdicts, [is_valid |-> v.is_valid, error |-> v.error]),
         stats |-> IF v.is_valid
                   THEN [acc.stats EXCEPT !.valid = @ + 1]
                   ELSE IF v.error # <<>>
                   THEN [acc.stats EXCEPT !.invalid = @ + 1,
                                          !.errors = count_errors(@, v.error)]
                   ELSE [acc.stats EXCEPT !.invalid = @ + 1]]

\* callouts as the parser hands them over, field by field
ValidationUniverse ==
    { DictOf([raw |-> raw, calloutType |-> kind, diameter |-> diameter, depth |-> depth,
              threadSize |-> threadSize, angle |-> angle, quantity |-> quantity]) :
        raw \in {Absent, PyStr(""), PyStr(" "), PyStr("DIA .500 THRU"), PyInt(5)},
        kind \in {Absent, PyNone, PyStr(""), PyStr("Hole"), PyStr("TappedHole"),
                  PyStr("Tolerance"), PyStr("Unknown"), PyStr("Bogus")},
        diameter \in {Absent, PyNone, PyFloat(500), PyFloat(0), PyFloat(-500),
                      PyStr(" "), PyStr("-5")},
        depth \in {Absent, PyFloat(-250)},
        threadSize \in {Absent, PyStr(""), PyStr("M10x1.5")},
        angle \in {Absent, PyInt(45), PyInt(400), PyFloat(-100), PyStr("400"), PyStr("TYP")},
        quantity \in {Absent, PyNone, PyInt(0), PyInt(-1), PyInt(2), PyFloat(270),
                      PyFloat(50), PyStr("3"), PyStr("TYP")} }

BatchCallouts ==
    { [raw |-> PyStr("DIA .500 THRU"), calloutType |-> PyStr("Hole"),
       diameter |-> PyFloat(500)],
      [raw |-> PyStr("DIA .500 THRU"), calloutType |-> PyStr("Hole")],
      [raw |-> PyStr(" "), calloutType |-> PyStr("Bogus")],
      [raw |-> PyStr("M10x1.5"), calloutType |-> PyStr("TappedHole"),
       threadSize |-> PyStr("M10x1.5"), quantity |-> PyInt(2)],
      [raw |-> PyStr("DIA .500 THRU"), calloutType |-> PyStr("Hole"),
       diameter |-> PyFloat(-500), quantity |-> PyInt(0)],
      [raw |-> PyStr("SEE NOTE 3"), calloutType |-> PyStr("Unknown")] }

InitValidate ==
    /\ NoNormalizer
    /\ NoCaller
    /\ IdleMatching
    /\ features = <<>>
    /\ expanded = <<>>
    /\ expanded_sw = <<>>
    /\ pc = "validating"
    /\ callouts \in SeqsUpTo(BatchCallouts, MaxBatch)
                        \cup {<<c>> : c \in ValidationUniverse}
    /\ repaired = <<>>
    /\ verdicts = <<>>
    /\ stats = [valid |-> 0, invalid |-> 0, total |-> Len(callouts), errors |-> EmptyDict]

ValidationOnly ==
    UNCHANGED <<fp_round, drawing_callouts, sw_features, matcher, init_args, default_config,
                results, used_sw_indices, used_callout_indices, scores,
                callouts, features, expanded, expanded_sw, path, sw_data, diff,
                raw_texts, drawing_units, title_block_text,
                normalized>>

\* one pass of the loop body
ValidateNext ==
    /\ pc = "validating"
    /\ Len(verdicts) < Len(callouts)
    /\ LET acc == validate_and_repair_step(
                      [repaired |-> repaired, verdicts |-> verdicts, stats |-> stats],
                      callouts[Len(verdicts) + 1])
       IN  /\ repaired' = acc.repaired
           /\ verdicts' = acc.verdicts
           /\ stats' = acc.stats
    /\ pc' = "validating"
    /\ ValidationOnly

\* return repaired, stats
ValidateReturn ==
    /\ pc = "validating"
    /\ Len(verdicts) = Len(callouts)
    /\ pc' = "validated"
    /\ UNCHANGED <<repaired, verdicts, stats>>
    /\ ValidationOnly

NextValidate ==
    \/ ValidateNext
    \/ ValidateReturn

SpecValidate == InitValidate /\ [][NextValidate]_vars

ForcedUnknown(c) ==
    /\ Get(c, "calloutType") = PyStr("Unknown")
    /\ Get(c, "_invalid") = PyBool(TRUE)

\* C8: validate_and_repair_all never drops or reorders: the repaired list has
\* the length of the input, its i-th element is the validation result of the
\* i-th input, valid + invalid = total = number of inputs, and invalid is the
\* number of output callouts forced to Unknown
C8_NoDropNoReorder ==
    pc = "validated" =>
        /\ Len(repaired) = Len(callouts)
        /\ \A i \in DOMAIN callouts :
              i \in DOMAIN repaired /\ repaired[i] = validate_callout(callouts[i]).callout
        /\ stats.valid + stats.invalid = stats.total
        /\ stats.total = Len(callouts)
        /\ stats.invalid =
              Cardinality({i \in DOMAIN repaired : ForcedUnknown(repaired[i])})

\* three callouts, the middle one invalid, come back in place
C8_Witness ==
    /\ pc = "validated"
    /\ Len(callouts) = 3
    /\ stats.valid = 2
    /\ stats.invalid = 1
    /\ ForcedUnknown(repaired[2])
    /\ repaired[1] = callouts[1]
    /\ repaired[3] = callouts[3]

HasField(c, f) ==
    /\ f \in DOMAIN c
    /\ c[f] # PyNone
    /\ ~(c[f].k = "str" /\ IsBlank(c[f].s))

SatisfiesRequired(c) ==
    /\ "calloutType" \in DOMAIN c
    /\ c.calloutType.k = "str"
    /\ c.calloutType.s \in DOMAIN REQUIRED_FIELDS
    /\ \A i \in DOMAIN REQUIRED_FIELDS[c.calloutType.s] :
          HasField(c, REQUIRED_FIELDS[c.calloutType.s][i])

HasReason(c) ==
    /\ "_validation_error" \in DOMAIN c
    /\ c._validation_error # <<>>

\* C9: every callout validate_callout returns either has every required field
\* of its kind present and non-blank, or has kind Unknown with a non-empty
\* invalid reason
C9_RequiredOrUnknown ==
    \A i \in DOMAIN repaired :
        \/ SatisfiesRequired(repaired[i])
        \/ (Get(repaired[i], "calloutType") = PyStr("Unknown") /\ HasReason(repaired[i]))

\* a Hole with its diameter stays a Hole; a Hole without one comes back Unknown
\* with a reason
C9_Witness ==
    /\ Len(repaired) = 2
    /\ Get(callouts[1], "calloutType") = PyStr("Hole")
    /\ repaired[1] = callouts[1]
    /\ HasField(repaired[1], "diameter")
    /\ Get(callouts[2], "calloutType") = PyStr("Hole")
    /\ ~HasField(callouts[2], "diameter")
    /\ Get(repaired[2], "calloutType") = PyStr("Unknown")
    /\ HasReason(repaired[2])

Failure(msg, field) == [msg |-> msg, field |-> field]

RawBlank(c) ==
    \/ "raw" \notin DOMAIN c
    \/ c.raw.k # "str"
    \/ IsBlank(c.raw.s)

KindMissing(c) == ~Truthy(GetOr(c, "calloutType", PyStr("")))
KindRecognized(c) ==
    /\ ~KindMissing(c)
    /\ c.calloutType.k = "str"
    /\ c.calloutType.s \in DOMAIN REQUIRED_FIELDS

NegativeNumber(v) == IsNumber(v) /\ v.n < 0

AngleOutside(v) ==
    /\ v # PyNone
    /\ AngleOf(v) # PyNone
    /\ (AngleOf(v).n < 0 \/ AngleOf(v).n > 36000)

\* the checks a callout fails, each named by its message and field
FailedChecks(c) ==
    {Failure("missing 'raw' field", "raw") : x \in {1} \cap {IF RawBlank(c) THEN 1 ELSE 0}}
    \cup {Failure("missing 'calloutType'", "calloutType") :
              x \in {1} \cap {IF KindMissing(c) THEN 1 ELSE 0}}
    \cup {Failure("unknown calloutType", "calloutType") :
              x \in {1} \cap {IF ~KindMissing(c) /\ ~KindRecognized(c) THEN 1 ELSE 0}}
    \cup {Failure("missing required field", f) :
              f \in {g \in {"diameter", "threadSize"} :
                        /\ KindRecognized(c)
                        /\ \E i \in DOMAIN REQUIRED_FIELDS[c.calloutType.s] :
                              REQUIRED_FIELDS[c.calloutType.s][i] = g
                        /\ ~HasField(c, g)}}
    \cup {Failure("negative value", f) :
              f \in {g \in {"diameter", "depth"} : NegativeNumber(Get(c, g))}}
    \cup {Failure("angle out of range", "angle") :
              x \in {1} \cap {IF AngleOutside(Get(c, "angle")) THEN 1 ELSE 0}}
    \cup {Failure("non-integer quantity", "quantity") :
              x \in {1} \cap {IF Get(c, "quantity") # PyNone /\ IntOf(Get(c, "quantity")) = PyNone
                              THEN 1 ELSE 0}}
    \cup {Failure("non-positive quantity", "quantity") :
              x \in {1} \cap {IF /\ Get(c, "quantity") # PyNone
                                 /\ IntOf(Get(c, "quantity")) # PyNone
                                 /\ IntOf(Get(c, "quantity")).n <= 0
                              THEN 1 ELSE 0}}

ReasonEntries(r) ==
    {Failure(r._validation_error[n].msg, r._validation_error[n].field) :
        n \in DOMAIN r._validation_error}

MaxKinded == 2

KindedCallout(kind) ==
    [calloutType |-> PyStr(kind), raw |-> PyStr("M10x1.5"),
     diameter |-> PyFloat(500), radius |-> PyFloat(125), size |-> PyFloat(60),
     thread |-> MetricThread(1000, 150, "M10x1.5")]

KindedFeature(kind) ==
    SwFeature(kind, PyFloat(500), PyNone, PyFloat(125),
              MetricThread(1000, 150, "M10x1.5"))

CalloutKinds ==
    {"Hole", "Slot", "Bend", "Note", "CounterboreHole", "CountersinkHole",
     "Thread", "GDT", "SurfaceFinish", "Dimension", "Tolerance"}

FeatureKinds == {"Hole", "TappedHole", "CounterboreHole", "Thread"}

InitKinded ==
    /\ NoNormalizer
    /\ NoCaller
    /\ fp_round = 0
    /\ drawing_callouts \in SeqsUpTo({KindedCallout(k) : k \in CalloutKinds}, MaxKinded)
    /\ sw_features \in SeqsUpTo({KindedFeature(k) : k \in FeatureKinds}, MaxKinded)
    /\ default_config = Config(TRUE)
    /\ init_args = NoArgs
    /\ matcher = FeatureMatcherInit(NoArgs, default_config)
    /\ MatchStart
    /\ IdleExpansion
    /\ IdleValidation

SpecKinded == InitKinded /\ [][NextMatch]_vars

NotYetScored ==
    {"Slot", "Bend", "Note", "CounterboreHole", "CountersinkHole", "Thread",
     "GDT", "SurfaceFinish", "Dimension", "Tolerance"}

OnlySkipped(ns) ==
    /\ ns # {}
    /\ \A n \in ns : results[n].status = "skipped"

\* C11: a callout or a feature whose kind is one of Slot, Bend, Note,
\* CounterboreHole, CountersinkHole, Thread, GDT, SurfaceFinish, Dimension,
\* Tolerance ends match_all as Skipped, never as Matched, ToleranceFail,
\* Missing or Extra
C11_FutureKindsSkipped ==
    Returned =>
        /\ \A i \in DOMAIN drawing_callouts :
              drawing_callouts[i].calloutType.s \in NotYetScored
                  => OnlySkipped(ResultsWithCallout(i))
        /\ \A i \in DOMAIN sw_features :
              sw_features[i].feature_type \in NotYetScored
                  => OnlySkipped(ResultsWithSw(i))

\* a CounterboreHole callout and a Thread feature, each with the diameter and
\* thread of a Hole or TappedHole on the other side, both end Skipped
C11_Witness ==
    /\ Returned
    /\ Len(drawing_callouts) = 2
    /\ Len(sw_features) = 2
    /\ drawing_callouts[1].calloutType = PyStr("CounterboreHole")
    /\ drawing_callouts[2].calloutType = PyStr("Hole")
    /\ sw_features[1].feature_type = "Thread"
    /\ sw_features[2].feature_type = "TappedHole"
    /\ OnlySkipped(ResultsWithCallout(1))
    /\ OnlySkipped(ResultsWithSw(1))
    /\ \E n \in DOMAIN results : results[n].notes = "Equivalent match"

(***************************************************************************)
(* The callers of match_all: the two pipelines' run and compare_drawing    *)
(***************************************************************************)
MaxDrawing == 2

RECURSIVE validate_all_from(_, _)
validate_all_from(acc, cs) ==
    IF cs = <<>> THEN acc
    ELSE validate_all_from(validate_and_repair_step(acc, Head(cs)), Tail(cs))

validate_and_repair_all(cs) ==
    validate_all_from(
        [repaired |-> <<>>, verdicts |-> <<>>,
         stats |-> [valid |-> 0, invalid |-> 0, total |-> Len(cs), errors |-> EmptyDict]],
        cs)

\* SwFeatureExtractor.extract: the SwFeature list of the JSON's features section
extract(data) == GetOr(data.d, "features", <<>>)

\* a float quotient num / den
Ratio(num, den) == [k |-> "ratio", num |-> num, den |-> den]

\* DiffResult(...) as constructed, before any field is assigned
NewDiffResult ==
    [has_sw_data |-> FALSE, match_rate |-> Ratio(0, 1), summary |-> EmptyDict,
     entries |-> <<>>, sw_feature_count |-> 0]

DiffEntry(category, status, drawing_value, delta, notes) ==
    [category |-> category, status |-> status, drawing_value |-> drawing_value,
     delta |-> delta, notes |-> notes]

\* the callouts reported as a real comparison against no features
stub_diff_as_extra(found_callouts) ==
    [NewDiffResult EXCEPT
        !.has_sw_data = TRUE,
        !.summary = [matched |-> 0, missing |-> 0, extra |-> Len(found_callouts),
                     tolerance_fail |-> 0],
        !.entries = [i \in DOMAIN found_callouts |->
            DiffEntry(GetOr(found_callouts[i], "calloutType", PyStr("unknown")),
                      "extra",
                      GetOr(found_callouts[i], "raw", PyStr("")),
                      PyNone,
                      "not in SW model")]]

\* compare_drawing without SolidWorks data
stub_diff(found_callouts) ==
    [NewDiffResult EXCEPT
        !.has_sw_data = FALSE,
        !.summary = [matched |-> 0, missing |-> 0, extra |-> Len(found_callouts),
                     tolerance_fail |-> 0],
        !.entries = [i \in DOMAIN found_callouts |->
            DiffEntry(GetOr(found_callouts[i], "calloutType", PyStr("unknown")),
                      "unverified",
                      GetOr(found_callouts[i], "raw", PyStr("str(callout)")),
                      PyNone,
                      "No SolidWorks data available for verification")]]

\* _match_result_to_entry, the MatchResult naming its items by position
match_result_to_entry(mr, dc, sw) ==
    LET has_callout == mr.drawing_callout # 0 /\ Truthy(PyDict(dc[mr.drawing_callout]))
        category == IF has_callout
                    THEN GetOr(dc[mr.drawing_callout], "calloutType", PyStr("unknown"))
                    ELSE IF mr.sw_feature # 0
                    THEN PyStr(sw[mr.sw_feature].feature_type)
                    ELSE PyStr("unknown")
        drawing_val == IF has_callout
                       THEN GetOr(dc[mr.drawing_callout], "raw", PyStr(""))
                       ELSE PyStr("")
    IN  DiffEntry(category, mr.status, drawing_val, mr.delta, mr.notes)

\* compare_drawing, from the match results on
finished_diff(d, match_results, dc, sw) ==
    LET counts == [matched |-> CountStatus(match_results, "matched"),
                   missing |-> CountStatus(match_results, "missing"),
                   extra |-> CountStatus(match_results, "extra"),
                   tolerance_fail |-> CountStatus(match_results, "tolerance")]
        total_sw == Len(sw)
    IN  [d EXCEPT
            !.entries = [n \in DOMAIN match_results |->
                            match_result_to_entry(match_results[n], dc, sw)],
            !.summary = counts,
            !.match_rate = IF total_sw > 0 THEN Ratio(counts.matched, total_sw)
                           ELSE IF counts.extra = 0 THEN Ratio(1, 1) ELSE Ratio(0, 1)]

Pipelines == {"vision_pipeline", "yolo_pipeline"}

DrawingCallouts ==
    { [calloutType |-> PyStr("Hole"), raw |-> PyStr("DIA .500 THRU"),
       diameter |-> PyFloat(500)],
      [calloutType |-> PyStr("Hole"), raw |-> PyStr("2X DIA .500 THRU"),
       diameter |-> PyFloat(500), quantity |-> PyInt(2)],
      [calloutType |-> PyStr("Hole"), raw |-> PyStr("DIA THRU")],
      [calloutType |-> PyStr("TappedHole"), raw |-> PyStr("M10x1.5"),
       threadSize |-> PyStr("M10x1.5"), thread |-> MetricThread(1000, 150, "M10x1.5")],
      [calloutType |-> PyStr("Slot"), raw |-> PyStr("SLOT")] }

DrawingFeatures ==
    { SwFeature("Hole", PyFloat(500), PyNone, PyNone, PyNone),
      [SwFeature("Hole", PyFloat(500), PyNone, PyNone, PyNone) EXCEPT !.quantity = PyInt(2)],
      SwFeature("TappedHole", PyFloat(335), PyNone, PyNone,
                MetricThread(1000, 150, "M10x1.5")) }

\* the SolidWorks JSON: none, an empty object, or a part with its features
SwDataValues ==
    {PyNone, PyDict(EmptyDict), PyDict([partNumber |-> PyStr("P-100")])}
        \cup {PyDict([partNumber |-> PyStr("P-100"), features |-> fs]) :
                 fs \in SeqsUpTo(DrawingFeatures, MaxDrawing)}

InitDrawing ==
    /\ NoNormalizer
    /\ path \in Pipelines \cup {"compare_drawing"}
    /\ pc = "start"
    /\ callouts \in SeqsUpTo(DrawingCallouts, MaxDrawing)
    /\ sw_data \in SwDataValues
    /\ diff = PyNone
    /\ fp_round = 0
    /\ default_config = Config(TRUE)
    /\ init_args = NoArgs
    /\ matcher = FeatureMatcherInit(NoArgs, default_config)
    /\ drawing_callouts = <<>>
    /\ sw_features = <<>>
    /\ results = <<>>
    /\ used_sw_indices = {}
    /\ used_callout_indices = {}
    /\ scores = PyNone
    /\ features = <<>>
    /\ expanded = <<>>
    /\ expanded_sw = <<>>
    /\ IdleValidation

MatchStateUnchanged ==
    UNCHANGED <<fp_round, matcher, init_args, default_config, results, used_sw_indices,
                used_callout_indices, scores, callouts, path, sw_data,
                raw_texts, drawing_units, title_block_text,
                normalized>>

\* run: validate, and load the SolidWorks features
RunValidate ==
    /\ pc = "start"
    /\ path \in Pipelines
    /\ LET v == validate_and_repair_all(callouts)
       IN  /\ repaired' = v.repaired
           /\ verdicts' = v.verdicts
           /\ stats' = v.stats
    /\ features' = IF Truthy(sw_data) THEN extract(sw_data) ELSE <<>>
    /\ pc' = "expand"
    /\ UNCHANGED <<drawing_callouts, sw_features, expanded, expanded_sw, diff>>
    /\ MatchStateUnchanged

\* run: expand_both_sides(validated_callouts, sw_features)
RunExpand ==
    /\ pc = "expand"
    /\ expanded' = expand_drawing_callouts(repaired)
    /\ expanded_sw' = expand_sw_features(features)
    /\ pc' = "match"
    /\ UNCHANGED <<drawing_callouts, sw_features, features, repaired, verdicts, stats, diff>>
    /\ MatchStateUnchanged

\* run: self._matcher.match_all(expanded_callouts, expanded_sw)
RunMatchAll ==
    /\ pc = "match"
    /\ drawing_callouts' = expanded
    /\ sw_features' = expanded_sw
    /\ pc' = "TappedHole"
    /\ UNCHANGED <<features, expanded, expanded_sw, repaired, verdicts, stats, diff>>
    /\ MatchStateUnchanged

\* compare_drawing: no SolidWorks data
CompareStub ==
    /\ pc = "start"
    /\ path = "compare_drawing"
    /\ ~Truthy(sw_data)
    /\ diff' = stub_diff(callouts)
    /\ pc' = "compared"
    /\ UNCHANGED <<drawing_callouts, sw_features, features, expanded, expanded_sw,
                   repaired, verdicts, stats>>
    /\ MatchStateUnchanged

\* compare_drawing: extract, then matcher.match_all(drawing_callouts, sw_features)
CompareMatchAll ==
    /\ pc = "start"
    /\ path = "compare_drawing"
    /\ Truthy(sw_data)
    /\ features' = extract(sw_data)
    /\ diff' = [NewDiffResult EXCEPT !.has_sw_data = TRUE,
                                     !.sw_feature_count = Len(extract(sw_data))]
    /\ drawing_callouts' = callouts
    /\ sw_features' = extract(sw_data)
    /\ matcher' = FeatureMatcherInit(NoArgs, default_config)
    /\ init_args' = NoArgs
    /\ pc' = "TappedHole"
    /\ UNCHANGED <<fp_round, default_config, results, used_sw_indices,
                   used_callout_indices, scores, callouts, path, sw_data,
                   expanded, expanded_sw, repaired, verdicts, stats,
                   raw_texts, drawing_units, title_block_text,
                normalized>>

\* compare_drawing: entries, summary and match rate
CompareFinish ==
    /\ pc = "returned"
    /\ path = "compare_drawing"
    /\ diff' = finished_diff(diff, results, drawing_callouts, sw_features)
    /\ pc' = "compared"
    /\ UNCHANGED <<drawing_callouts, sw_features, features, expanded, expanded_sw,
                   repaired, verdicts, stats>>
    /\ MatchStateUnchanged

NextDrawing ==
    \/ RunValidate
    \/ RunExpand
    \/ RunMatchAll
    \/ CompareStub
    \/ CompareMatchAll
    \/ CompareFinish
    \/ NextMatch

SpecDrawing == InitDrawing /\ [][NextDrawing]_vars

MatchStages ==
    {"TappedHole", "Hole", "Fillet", "Chamfer", "equivalents", "skip_callouts",
     "skip_sw", "missing", "extra", "returned"}

\* the lists match_all was given are the expansions of the caller's lists
ReceivedExpanded ==
    /\ drawing_callouts =
          expand_drawing_callouts(IF path \in Pipelines THEN repaired ELSE callouts)
    /\ sw_features = expand_sw_features(features)

\* C12: on every path that produces match results, both lists have been
\* expanded by quantity before match_all is invoked
C12_ExpandedBeforeMatch == pc \in MatchStages => ReceivedExpanded

\* the same on the two pipelines' run alone
PipelinesExpandBeforeMatch ==
    (pc \in MatchStages /\ path \in Pipelines) => ReceivedExpanded

Compared == pc = "compared"

\* no CAD data at all: None, or an object holding nothing
NoCadData == sw_data = PyNone \/ sw_data = PyDict(EmptyDict)

EntriesWith(status) == {n \in DOMAIN diff.entries : diff.entries[n].status = status}

\* C13: without CAD data compare_drawing returns has_sw_data false, zero
\* requirements and one unverified entry per supplied callout; with CAD data,
\* even data yielding no requirement, the result differs from that one
C13_StubUnverified ==
    Compared =>
        IF NoCadData
        THEN /\ diff.has_sw_data = FALSE
             /\ diff.sw_feature_count = 0
             /\ Len(diff.entries) = Len(callouts)
             /\ \A i \in DOMAIN callouts :
                   /\ diff.entries[i].status = "unverified"
                   /\ diff.entries[i].drawing_value = callouts[i].raw
        ELSE /\ diff.has_sw_data = TRUE
             /\ EntriesWith("unverified") = {}
             /\ diff # stub_diff(callouts)

\* two callouts and no CAD data: two unverified entries
C13_Witness ==
    /\ Compared
    /\ sw_data = PyNone
    /\ Len(callouts) = 2
    /\ diff.has_sw_data = FALSE
    /\ EntriesWith("unverified") = {1, 2}

\* CAD data that yields no requirement: the callouts come back as extra
ZeroRequirementsCompared ==
    /\ Compared
    /\ ~NoCadData
    /\ extract(sw_data) = <<>>
    /\ Len(callouts) = 2
    /\ diff.has_sw_data = TRUE
    /\ EntriesWith("extra") = {1, 2}

\* the entry status a summary key counts
EntryStatusOf(key) == IF key = "tolerance_fail" THEN "tolerance" ELSE key

SummaryTotal ==
    diff.summary.matched + diff.summary.missing + diff.summary.extra
        + diff.summary.tolerance_fail

\* C14: in every DiffResult of compare_drawing, stub or real, each count of
\* the summary is the number of entries carrying that status, and the counts
\* together account for every entry
C14_SummaryAgrees ==
    Compared =>
        /\ \A key \in DOMAIN diff.summary :
              diff.summary[key] = Cardinality(EntriesWith(EntryStatusOf(key)))
        /\ SummaryTotal = Len(diff.entries)

\* the per-status half alone, on results of a real comparison
RealSummaryCounts ==
    (Compared /\ diff.has_sw_data) =>
        \A key \in DOMAIN diff.summary :
            diff.summary[key] = Cardinality(EntriesWith(EntryStatusOf(key)))

\* ---------------------------------------------------------------------
\* Unit normalizer (extractors/unit_normalizer.py)
\*
\* A raw text is a tuple of one-character strings.  A dimension value of the
\* normalizer is a fixed-point number in units of 0.000001 (the precision
\* normalize_callout rounds to), so PyFloat(500000) is 0.5.

MaxNorm == 1

DigitChars == {"0", "1", "2", "3", "4", "5", "6", "7", "8", "9"}

\* the characters \w matches: letters, digits and the underscore
WordChars ==
    DigitChars \cup {"_"} \cup
    {"a", "b", "c", "d", "e", "f", "g", "h", "i", "j", "k", "l", "m",
     "n", "o", "p", "q", "r", "s", "t", "u", "v", "w", "x", "y", "z",
     "A", "B", "C", "D", "E", "F", "G", "H", "I", "J", "K", "L", "M",
     "N", "O", "P", "Q", "R", "S", "T", "U", "V", "W", "X", "Y", "Z"}

\* detect_callout_units: the four pattern searches, in order.  Each pattern is
\* run as a set of positions: the positions (index of the next character to
\* read) a match of the pattern read so far can have reached, from any start.
detect_callout_units(raw_text) ==
    LET t == raw_text
        All == 1..(Len(t) + 1)
        At(i) == IF i \in DOMAIN t THEN t[i] ELSE ""
        IsWord(i) == At(i) \in WordChars
        \* \b : exactly one side of the position is a word character
        Boundary(P) == {i \in P : IsWord(i - 1) # IsWord(i)}
        \* one character out of S
        Lit(P, S) == {i + 1 : i \in {p \in P : At(p) \in S}}
        Opt(P, S) == P \cup Lit(P, S)
        \* \d+ and \d*
        Digits1(P) == {j \in All : \E i \in P :
                          i < j /\ \A k \in i..(j - 1) : At(k) \in DigitChars}
        Digits0(P) == P \cup Digits1(P)
        \* \s*
        Spaces0(P) == {j \in All : \E i \in P :
                          i <= j /\ \A k \in i..(j - 1) : At(k) = " "}
        \* (\d+\.?\d*)
        Number == Digits0(Opt(Digits1(All), {"."}))
        \* \bM\d+(?:[xX]\d+(?:\.\d+)?)?\b
        MSize == Digits1(Lit(Boundary(All), {"M"}))
        MPitch == Digits1(Lit(MSize, {"x", "X"}))
        METRIC_THREAD_PATTERN ==
            Boundary(MSize \cup MPitch \cup Digits1(Lit(MPitch, {"."})))
        \* (?:\d+/\d+|#\d+)-\d+\s*(?:UNC|UNF|UN)\b, ignoring case
        Size == Digits1(Lit(Digits1(All), {"/"})) \cup Digits1(Lit(All, {"#"}))
        UN == Lit(Lit(Spaces0(Digits1(Lit(Size, {"-"}))), {"U", "u"}), {"N", "n"})
        IMPERIAL_THREAD_PATTERN == Boundary(Opt(UN, {"C", "c", "F", "f"}))
        \* (\d+\.?\d*)\s*mm\b, ignoring case
        CALLOUT_MM_HINT ==
            Boundary(Lit(Lit(Spaces0(Number), {"m", "M"}), {"m", "M"}))
        \* (\d+\.?\d*)\s*(?:"|in\.?)\b
        CALLOUT_INCH_HINT ==
            Boundary(Lit(Spaces0(Number), {"\""})
                     \cup Opt(Lit(Lit(Spaces0(Number), {"i"}), {"n"}), {"."}))
    IN  IF Len(t) = 0 THEN PyNone
        ELSE IF METRIC_THREAD_PATTERN # {} THEN PyStr("mm")
        ELSE IF IMPERIAL_THREAD_PATTERN # {} THEN PyStr("inch")
        ELSE IF CALLOUT_MM_HINT # {} THEN PyStr("mm")
        ELSE IF CALLOUT_INCH_HINT # {} THEN PyStr("inch")
        ELSE PyNone

\* _parse_numeric on the value texts of the model: quotes and the depth
\* keywords are stripped, a fraction is divided out, anything float() rejects
\* is None
parse_numeric(value) ==
    CASE value = "0.500" -> PyFloat(500000)
      [] value = "0.500\"" -> PyFloat(500000)
      [] value = "12.7" -> PyFloat(12700000)
      [] value = "0.02" -> PyFloat(20000)
      [] value = "200" -> PyFloat(200000000)
      [] value = "3/8" -> PyFloat(375000)
      [] value = ".5 DEEP" -> PyFloat(500000)
      [] OTHER -> PyNone

\* PLAUSIBLE_RANGES and _is_plausible_inch
is_plausible_inch(value, field_name) ==
    LET range == CASE field_name = "diameter" -> <<10000, 12000000>>
                   [] field_name = "radius" -> <<5000, 6000000>>
                   [] field_name = "size" -> <<5000, 2000000>>
                   [] field_name = "depth" -> <<10000, 12000000>>
                   [] field_name = "cboreDiameter" -> <<50000, 6000000>>
                   [] field_name = "cboreDepth" -> <<10000, 4000000>>
                   [] field_name = "csinkDiameter" -> <<50000, 4000000>>
                   [] field_name = "roughness" -> <<1000000, 500000000>>
                   [] field_name = "toleranceValue" -> <<100, 100000>>
                   [] OTHER -> <<1000, 50000000>>
    IN  range[1] <= value /\ value <= range[2]

DIMENSION_FIELDS ==
    {"diameter", "radius", "size", "depth", "cboreDiameter", "cboreDepth",
     "csinkDiameter", "nominal", "tolerance", "bilateral", "plus", "minus",
     "threadSize"}

SKIP_FIELDS ==
    {"quantity", "calloutType", "pitch", "threadClass", "csinkAngle", "angle",
     "roughness", "gdtType", "toleranceValue"}

\* numeric * MM_TO_INCH, to the nearest 0.000001
mm_to_inch(numeric) == (numeric * 10 + 127) \div 254

\* the fields normalize_callout and _dual_hypothesis look at: dimension
\* fields holding text
ConvertibleFields(parsed) ==
    {f \in DOMAIN parsed : /\ f \notin SKIP_FIELDS
                           /\ f \in DIMENSION_FIELDS
                           /\ parsed[f].k = "str"}

dual_hypothesis(parsed) ==
    LET checked == {f \in ConvertibleFields(parsed) :
                       parse_numeric(parsed[f].s) # PyNone}
        numeric(f) == parse_numeric(parsed[f].s).n
        inch_plausible ==
            Cardinality({f \in checked : is_plausible_inch(numeric(f), f)})
        mm_plausible ==
            Cardinality({f \in checked :
                            is_plausible_inch(mm_to_inch(numeric(f)), f)})
    IN  IF checked = {} THEN <<PyStr("inch"), PyStr("dual_hypothesis_ambiguous")>>
        ELSE IF mm_plausible > inch_plausible
            THEN <<PyStr("mm"), PyStr("dual_hypothesis")>>
        ELSE IF inch_plausible > mm_plausible
            THEN <<PyStr("inch"), PyStr("dual_hypothesis")>>
        ELSE <<PyStr("inch"), PyStr("dual_hypothesis_ambiguous")>>

\* the provenance keys are added to the copy of the parsed callout
normalize_callout(parsed, raw_text, units) ==
    LET Provenance(result, detected, method) ==
            [f \in DOMAIN result \cup {"_detected_units", "_drawing_units",
                                       "_normalization_method"} |->
                CASE f = "_detected_units" -> detected
                  [] f = "_drawing_units" -> units
                  [] f = "_normalization_method" -> method
                  [] OTHER -> result[f]]
        callout_units == detect_callout_units(raw_text)
        resolved ==
            IF Truthy(callout_units) THEN <<callout_units, PyStr("callout_hint")>>
            ELSE IF Truthy(units) THEN <<units, PyStr("drawing_hint")>>
            ELSE dual_hypothesis(parsed)
        effective_units == resolved[1]
        converted(f) ==
            LET numeric == parse_numeric(parsed[f].s)
            IN  IF numeric = PyNone THEN PyNone
                ELSE IF effective_units = PyStr("mm")
                    THEN PyFloat(mm_to_inch(numeric.n))
                ELSE numeric
        result ==
            [f \in DOMAIN parsed |->
                IF f \in ConvertibleFields(parsed) /\ converted(f) # PyNone
                THEN converted(f) ELSE parsed[f]]
    IN  IF DOMAIN parsed = {}
        THEN Provenance(parsed, PyNone, PyNone)
        ELSE Provenance(result, effective_units, resolved[2])

\* raw texts, character by character
RawTexts ==
    { <<>>,
      <<"D", "I", "A", " ", ".", "5", "0", "0">>,
      <<"0", ".", "5", "0", "0", "\"">>,
      <<"0", ".", "5", " ", "i", "n">>,
      <<"1", "2", ".", "7", "m", "m">>,
      <<"M", "1", "0", "x", "1", ".", "5">>,
      <<"1", "/", "4", "-", "2", "0", " ", "U", "N", "C">>,
      <<"M", "6", " ", "1", " ", "i", "n">> }

\* parsed callouts: the diameter as numeric text, as a number or as text that
\* is no number, with or without a depth
ParsedCallouts ==
    { DictOf([calloutType |-> PyStr("Hole"), diameter |-> d, depth |-> h,
              quantity |-> PyInt(2)]) :
        d \in {PyStr("0.500"), PyStr("12.7"), PyStr("0.02"), PyStr("200"),
               PyStr("3/8"), PyStr("THRU"), PyFloat(12700000)},
        h \in {Absent, PyStr(".5 DEEP"), PyFloat(25400000)} }

InitNormalize ==
    /\ NoCaller
    /\ IdleValidation
    /\ features = <<>>
    /\ expanded = <<>>
    /\ expanded_sw = <<>>
    /\ scores = PyNone
    /\ IdleMatching
    /\ pc = "normalize"
    /\ \E n \in 1..MaxNorm :
          /\ callouts \in [1..n -> ParsedCallouts]
          /\ raw_texts \in [1..n -> RawTexts]
    \* detect_drawing_units gives "inch", "mm" or None; the pipelines fall
    \* back on the page understanding's "inch" or "metric"
    /\ drawing_units \in {PyNone, PyStr("inch"), PyStr("mm"), PyStr("metric")}
    /\ title_block_text = ""
    /\ normalized = <<>>

\* the pipelines' loop: the next callout is normalized with its own raw text
NormalizeNext ==
    /\ pc = "normalize"
    /\ LET i == Len(normalized) + 1
       IN  /\ normalized' = Append(normalized,
                normalize_callout(callouts[i], raw_texts[i], drawing_units))
           /\ pc' = IF i = Len(callouts) THEN "normalized" ELSE "normalize"
    /\ UNCHANGED <<fp_round, drawing_callouts, sw_features, matcher, init_args,
                   default_config, results, used_sw_indices,
                   used_callout_indices, scores, callouts, features, expanded,
                   expanded_sw, repaired, verdicts, stats, path, sw_data, diff,
                   raw_texts, drawing_units, title_block_text>>

SpecNormalize == InitNormalize /\ [][NormalizeNext]_vars

\* ---------------------------------------------------------------------
\* C15

\* the characters w stand in the text t from position i on
SubAt(t, i, w) ==
    \A k \in 1..Len(w) : (i + k - 1) \in DOMAIN t /\ t[i + k - 1] = w[k]

\* a number directly followed, or followed after one blank, by the unit w
NumberThen(t, w) ==
    \E i \in DOMAIN t :
        /\ t[i] \in DigitChars
        /\ SubAt(t, i + 1, w) \/ SubAt(t, i + 1, <<" ">> \o w)

\* the unit hint a reader finds in the raw text, rule by rule
StatedHint(t) ==
    IF \E i \in DOMAIN t :
          /\ t[i] = "M"
          /\ (i + 1) \in DOMAIN t /\ t[i + 1] \in DigitChars
          /\ i = 1 \/ t[i - 1] \notin WordChars
        THEN PyStr("mm")
    ELSE IF /\ \E i \in DOMAIN t : t[i] \in {"/", "#"}
            /\ NumberThen(t, <<"U", "N">>)
        THEN PyStr("inch")
    ELSE IF NumberThen(t, <<"m", "m">>) THEN PyStr("mm")
    ELSE IF NumberThen(t, <<"\"">>) \/ NumberThen(t, <<"i", "n">>)
        THEN PyStr("inch")
    ELSE PyNone

\* C15: every normalized callout carries the unit of the first rule that
\* applies - the hint in its raw text (metric thread, imperial thread, mm
\* suffix, inch mark), else the drawing-level unit, else the dual hypothesis -
\* and its method field names that rule
C15_UnitPriority ==
    \A i \in DOMAIN normalized :
        LET hint == StatedHint(raw_texts[i])
            units == Get(normalized[i], "_detected_units")
            method == Get(normalized[i], "_normalization_method")
        IN  IF hint # PyNone
                THEN units = hint /\ method = PyStr("callout_hint")
            ELSE IF drawing_units # PyNone
                THEN units = drawing_units /\ method = PyStr("drawing_hint")
            ELSE /\ units = dual_hypothesis(callouts[i])[1]
                 /\ method \in {PyStr("dual_hypothesis"),
                                PyStr("dual_hypothesis_ambiguous")}

\* the same with the inch mark read as the pattern reads it: the mark counts
\* only when a letter, digit or underscore follows it
C15_UnitPriorityAsSearched ==
    \A i \in DOMAIN normalized :
        LET hint == detect_callout_units(raw_texts[i])
            units == Get(normalized[i], "_detected_units")
            method == Get(normalized[i], "_normalization_method")
        IN  /\ hint # StatedHint(raw_texts[i]) =>
                   /\ hint = PyNone
                   /\ NumberThen(raw_texts[i], <<"\"">>)
            /\ IF hint # PyNone
                   THEN units = hint /\ method = PyStr("callout_hint")
               ELSE IF drawing_units # PyNone
                   THEN units = drawing_units /\ method = PyStr("drawing_hint")
               ELSE /\ units = dual_hypothesis(callouts[i])[1]
                    /\ method \in {PyStr("dual_hypothesis"),
                                   PyStr("dual_hypothesis_ambiguous")}

\* no unit hint, drawing declared in inches: inch by drawing_hint
C15_DrawingHintExample ==
    \A i \in DOMAIN normalized :
        (StatedHint(raw_texts[i]) = PyNone /\ drawing_units = PyStr("inch")) =>
            /\ Get(normalized[i], "_detected_units") = PyStr("inch")
            /\ Get(normalized[i], "_normalization_method") = PyStr("drawing_hint")

\* ---------------------------------------------------------------------
\* C16

\* the number a field value stands for, None when it stands for none
NumericOf(value) ==
    CASE value.k \in {"int", "float"} -> value
      [] value.k = "str" -> parse_numeric(value.s)
      [] OTHER -> PyNone

\* x is v / 25.4 to the nearest 0.000001
IsInchesOfMm(x, v) == x = (v * 10 + 127) \div 254

\* the dimension field f of the i-th callout is expressed in inches
InInches(i, f) ==
    LET given == NumericOf(callouts[i][f])
        units == Get(normalized[i], "_detected_units")
        held == Get(normalized[i], f)
    IN  /\ units = PyStr("mm") =>
            IsNumber(held) /\ IsInchesOfMm(held.n, given.n)
        /\ units = PyStr("inch") =>
            IsNumber(held) /\ held.n = given.n

\* the dimension fields of the i-th callout whose value is one of kinds
NumericFields(i, kinds) ==
    {f \in DOMAIN callouts[i] \cap DIMENSION_FIELDS :
        callouts[i][f].k \in kinds /\ NumericOf(callouts[i][f]) # PyNone}

\* C16: after normalize_callout every dimension field given as a number or
\* as numeric text holds inches: the given value times 1/25.4 when the
\* resolved unit is millimetres, the given value when it is inches
C16_DimensionsInInches ==
    \A i \in DOMAIN normalized :
        \A f \in NumericFields(i, {"int", "float", "str"}) : InInches(i, f)

\* the same for the fields given as numeric text only
C16_TextDimensionsInInches ==
    \A i \in DOMAIN normalized :
        \A f \in NumericFields(i, {"str"}) : InInches(i, f)

\* a field given as a number is returned as given, whatever the unit
C16_NumbersLeftAsGiven ==
    \A i \in DOMAIN normalized :
        \A f \in NumericFields(i, {"int", "float"}) :
            Get(normalized[i], f) = callouts[i][f]

\* ---------------------------------------------------------------------
\* Canonicalizer (extractors/canonicalize.py)
\*
\* A text is a tuple of characters; the characters outside ASCII are written
\* by their code point.  The texts of the model are drawn from OcrChars, and
\* canonicalize is translated for the characters these texts and their
\* results can hold: the rules of LATEX_REPLACEMENTS other than the decimal
\* comma need a backslash, "$", "_" or "^", and the SYMBOL_MAP entries other
\* than "0/", "+/-" and the en dash need a character that never occurs, so
\* they leave every such text as it is.

MaxText == 4

DIAMETER == "U+2300"
EN_DASH == "U+2013"
PLUS_MINUS == "U+00B1"

OcrChars == {"0", ",", " ", "x", "/", "+", DIAMETER, EN_DASH}

canonicalize(text) ==
    LET IsDigit(t, i) == i \in DOMAIN t /\ t[i] \in DigitChars
        IsSpace(t, i) == i \in DOMAIN t /\ t[i] = " "
        From(t, i) == SubSeq(t, i, Len(t))
        \* first position from i on that holds no digit / no blank
        RECURSIVE PastDigits(_, _)
        PastDigits(t, i) == IF IsDigit(t, i) THEN PastDigits(t, i + 1) ELSE i
        RECURSIVE PastSpaces(_, _)
        PastSpaces(t, i) == IF IsSpace(t, i) THEN PastSpaces(t, i + 1) ELSE i
        \* re.sub(r'(\d),(\d)', r'\1.\2', t): matches found left to right,
        \* the search resuming after each match
        RECURSIVE CommaDecimal(_)
        CommaDecimal(t) ==
            IF t = <<>> THEN <<>>
            ELSE IF IsDigit(t, 1) /\ Len(t) >= 3 /\ t[2] = "," /\ IsDigit(t, 3)
                THEN <<t[1], ".", t[3]>> \o CommaDecimal(From(t, 4))
            ELSE <<t[1]>> \o CommaDecimal(From(t, 2))
        \* t.replace(old, new)
        RECURSIVE Replace(_, _, _)
        Replace(t, old, new) ==
            IF t = <<>> THEN <<>>
            ELSE IF Len(t) >= Len(old) /\ SubSeq(t, 1, Len(old)) = old
                THEN new \o Replace(From(t, Len(old) + 1), old, new)
            ELSE <<t[1]>> \o Replace(From(t, 2), old, new)
        \* the SYMBOL_MAP loop, in the order of the table
        SymbolMap(t) ==
            Replace(Replace(Replace(t, <<"0", "/">>, <<DIAMETER>>),
                            <<"+", "/", "-">>, <<PLUS_MINUS>>),
                    <<EN_DASH>>, <<"-">>)
        \* re.sub(r'[ \t]+', ' ', t)
        RECURSIVE Collapse(_)
        Collapse(t) ==
            IF t = <<>> THEN <<>>
            ELSE IF t[1] = " " THEN <<" ">> \o Collapse(From(t, PastSpaces(t, 1)))
            ELSE <<t[1]>> \o Collapse(From(t, 2))
        \* re.sub(r'(\d+)\s*[xX×]\s+', r'\1X ', t)
        RECURSIVE QuantityPrefix(_)
        QuantityPrefix(t) ==
            IF t = <<>> THEN <<>>
            ELSE LET j == PastDigits(t, 1)
                     k == PastSpaces(t, j)
                 IN  IF /\ IsDigit(t, 1)
                        /\ k \in DOMAIN t /\ t[k] \in {"x", "X"}
                        /\ IsSpace(t, k + 1)
                     THEN SubSeq(t, 1, j - 1) \o <<"X", " ">>
                          \o QuantityPrefix(From(t, PastSpaces(t, k + 1)))
                     ELSE <<t[1]>> \o QuantityPrefix(From(t, 2))
        \* re.sub(r'^\s+|\s+$', '', t) and str.strip()
        RECURSIVE StripRight(_)
        StripRight(t) ==
            IF t # <<>> /\ t[Len(t)] = " "
            THEN StripRight(SubSeq(t, 1, Len(t) - 1)) ELSE t
        Strip(t) == StripRight(From(t, PastSpaces(t, 1)))
        \* _repair_missing_leading_decimals:
        \* re.sub(r'([⌀])\s*(\d{2,3})(?![\d./])', ...)
        RECURSIVE Repair(_)
        Repair(t) ==
            IF t = <<>> THEN <<>>
            ELSE LET d == PastSpaces(t, 2)
                     Free(i) == ~ (i \in DOMAIN t /\ t[i] \in DigitChars \cup {".", "/"})
                     n == IF IsDigit(t, d) /\ IsDigit(t, d + 1) /\ IsDigit(t, d + 2)
                             /\ Free(d + 3) THEN 3
                          ELSE IF IsDigit(t, d) /\ IsDigit(t, d + 1) /\ Free(d + 2)
                             THEN 2
                          ELSE 0
                 IN  IF t[1] = DIAMETER /\ n > 0
                     THEN <<DIAMETER, ".">> \o SubSeq(t, d, d + n - 1)
                          \o Repair(From(t, d + n))
                     ELSE <<t[1]>> \o Repair(From(t, 2))
    IN  IF text = <<>> THEN <<>>
        ELSE Strip(Repair(Strip(QuantityPrefix(Collapse(SymbolMap(
                 CommaDecimal(text)))))))

\* an OCR text is canonicalized, and the result canonicalized again
InitCanon ==
    /\ NoCaller
    /\ IdleExpansion
    /\ IdleValidation
    /\ IdleMatching
    /\ pc = "canonicalize"
    /\ \E n \in 0..MaxText : \E text \in [1..n -> OcrChars] : raw_texts = <<text>>
    /\ drawing_units = PyNone
    /\ title_block_text = ""
    /\ normalized = <<>>

\* one application of canonicalize to the latest text
Canonicalize ==
    /\ pc = "canonicalize"
    /\ raw_texts' = Append(raw_texts, canonicalize(raw_texts[Len(raw_texts)]))
    /\ pc' = IF Len(raw_texts) = 2 THEN "canonicalized" ELSE "canonicalize"
    /\ UNCHANGED <<fp_round, drawing_callouts, sw_features, matcher, init_args,
                   default_config, results, used_sw_indices,
                   used_callout_indices, scores, callouts, features, expanded,
                   expanded_sw, repaired, verdicts, stats, path, sw_data, diff,
                   drawing_units, title_block_text,
                normalized>>

SpecCanon == InitCanon /\ [][Canonicalize]_vars

\* C17: canonicalize is idempotent - canonicalizing a canonicalized text
\* gives that text again
C17_Idempotent ==
    Len(raw_texts) >= 3 => raw_texts[3] = raw_texts[2]

\* ---------------------------------------------------------------------
\* match_all on callouts whose thread sub-record holds text (matcher.py)

MaxMalformed == 2

\* _match_thread raises: a subtraction with a text operand is a TypeError
\* (lines 414, 422, 455), float() of text that is no number a ValueError (421)
match_thread_raises(callout, sw_feat, self) ==
    LET callout_thread == callout_thread_of(callout)
        sw_thread == IF Truthy(sw_feat.thread) THEN sw_feat.thread.d ELSE EmptyDict
        callout_nom == Get(callout_thread, "nominalDiameterMm")
        sw_nom == Get(sw_thread, "nominalDiameterMm")
        callout_pitch == Get(callout_thread, "pitch")
        sw_pitch == Get(sw_thread, "pitch")
        pitch_value == ParseFloat(callout_pitch.s)
        callout_tpi == Get(callout_thread, "tpi")
        sw_tpi == Get(sw_thread, "tpi")
        tpi_raises == /\ Truthy(callout_tpi) /\ Truthy(sw_tpi)
                      /\ "str" \in {callout_tpi.k, sw_tpi.k}
    IN  IF Truthy(callout_nom) /\ Truthy(sw_nom)
        THEN IF "str" \in {callout_nom.k, sw_nom.k} THEN TRUE
             ELSE IF FloatLeq(callout_nom.n - sw_nom.n, self.thread_tolerance_mm)
             THEN /\ Truthy(callout_pitch) /\ Truthy(sw_pitch)
                  /\ callout_pitch.k = "str"
                  /\ IF pitch_value = PyNone THEN TRUE
                     ELSE 20 <= pitch_value.n /\ pitch_value.n <= 600
             ELSE tpi_raises
        ELSE tpi_raises

\* the TappedHole pass of match_all raises: some callout, reached without
\* an earlier one raising, is compared with a feature not yet consumed and
\* the comparison raises
RECURSIVE match_all_raises_from(_, _, _, _)
match_all_raises_from(dc, sw, self, i) ==
    IF i > Len(dc) THEN FALSE
    ELSE IF /\ Get(dc[i], "calloutType") = PyStr("TappedHole")
            /\ \E j \in DOMAIN sw :
                  /\ sw[j].feature_type = "TappedHole"
                  /\ j \notin match_by_type(SubSeq(dc, 1, i - 1), sw, "TappedHole",
                                             {}, {}, self).sw_used
                  /\ match_thread_raises(dc[i], sw[j], self)
         THEN TRUE
         ELSE match_all_raises_from(dc, sw, self, i + 1)

match_all_raises == match_all_raises_from(drawing_callouts, sw_features, matcher, 1)

\* thread sub-records whose nominal diameter and pitch are each absent, a
\* number or text
MalformedCallouts ==
    { DictOf([calloutType |-> PyStr("TappedHole"), raw |-> PyStr("M10x1.5"),
              threadSize |-> PyStr("M10x1.5"),
              thread |-> PyDict(DictOf([standard |-> PyStr("Metric"),
                                        nominalDiameterMm |-> nom,
                                        pitch |-> pitch]))]) :
        nom \in {Absent, PyFloat(1000), PyFloat(1200), PyStr("10")},
        pitch \in {Absent, PyFloat(150), PyStr("1.5"), PyStr("abc")} }
    \cup { [calloutType |-> PyStr("Hole"), raw |-> PyStr("DIA .500 THRU"),
            diameter |-> PyFloat(500)] }

MalformedFeatures ==
    { SwFeature("TappedHole", PyFloat(531), PyNone, PyNone,
                MetricThread(1000, 150, "M10x1.5")),
      SwFeature("Hole", PyFloat(504), PyNone, PyNone, PyNone) }

InitMalformed ==
    /\ NoNormalizer
    /\ NoCaller
    /\ fp_round = 0
    /\ drawing_callouts \in SeqsUpTo(MalformedCallouts, MaxMalformed)
    /\ sw_features \in SeqsUpTo(MalformedFeatures, MaxMalformed)
    /\ default_config = Config(TRUE)
    /\ init_args = NoArgs
    /\ matcher = FeatureMatcherInit(NoArgs, default_config)
    /\ MatchStart
    /\ IdleExpansion
    /\ IdleValidation

\* a pass of match_all on such lists (matcher.py 131-133): the TappedHole
\* pass ends in the exception, which leaves match_all with no result list
\* returned, or the pass completes as _match_by_type does
MatchByTypeOrRaise ==
    IF pc = "TappedHole" /\ match_all_raises
    THEN /\ pc' = "raised"
         /\ UNCHANGED <<results, used_sw_indices, used_callout_indices, scores>>
         /\ MatchInputsUnchanged
    ELSE MatchByType

NextMalformed ==
    \/ MatchByTypeOrRaise
    \/ MatchEquivalents
    \/ SkipFutureCallouts
    \/ SkipFutureSw
    \/ AddMissing
    \/ AddExtra
    \/ ComputeScores

SpecMalformed == InitMalformed /\ [][NextMalformed]_vars

\* C18: match_all completes on every list of callouts whose thread fields are
\* absent, numbers or text - it never ends in an exception, and once it has
\* ended every callout is named by a result and the results are scored
C18_NoStageRaises ==
    /\ pc # "raised"
    /\ pc = "scored" =>
          /\ scores # PyNone
          /\ \A i \in DOMAIN drawing_callouts : ResultsWithCallout(i) # {}

\* match_all completes whenever no thread sub-record holds text
C18_NumbersNeverRaise ==
    (\A i \in DOMAIN drawing_callouts :
        LET t == Get(drawing_callouts[i], "thread")
        IN  t # PyNone => \A f \in DOMAIN t.d : f \in {"nominalDiameterMm", "pitch"}
                              => t.d[f].k # "str")
    => pc # "raised"

\* ---------------------------------------------------------------------
\* match_all while the shared default configuration is changed (config.py
\* 125: default_config is one module-level Config object, and Config is a
\* dataclass whose fields can be assigned)

\* match_all as a function of its arguments, the matcher and the
\* configuration read at lines 138, 257 and 299
match_all_with(dc, sw, self, cfg) ==
    LET Merge(acc, r) ==
            [results |-> acc.results \o r.results,
             sw_used |-> acc.sw_used \cup r.sw_used,
             callout_used |-> acc.callout_used \cup r.callout_used]
        Typed(acc, callout_type) ==
            Merge(acc, match_by_type(dc, sw, callout_type, acc.sw_used,
                                     acc.callout_used, self))
        typed == Typed(Typed(Typed(Typed(NoneUsed, "TappedHole"), "Hole"),
                             "Fillet"), "Chamfer")
        paired ==
            IF cfg.match_hole_tapped_equivalence
            THEN Merge(typed, match_hole_tapped_equivalents(dc, sw, typed.sw_used,
                                  typed.callout_used, cfg))
            ELSE typed
        skipped_c == skipped_callouts(dc, paired.callout_used, 1)
        callout_used == paired.callout_used \cup CalloutsOf(skipped_c)
        skipped_s == skipped_sw(sw, paired.sw_used, 1)
        sw_used == paired.sw_used \cup SwOf(skipped_s)
    IN  paired.results \o skipped_c \o skipped_s
        \o missing_sw(sw, dc, sw_used, callout_used, cfg, 1)
        \o extra_callouts(dc, callout_used, 1)

\* the settings another inspection may leave in the shared object
SharedConfigs ==
    {Config(TRUE), Config(FALSE),
     [Config(TRUE) EXCEPT !.hole_tapped_equivalence_tolerance_inches = 1]}

InitShared ==
    /\ NoNormalizer
    /\ NoCaller
    /\ fp_round = 0
    /\ drawing_callouts \in SeqsUpTo(CalloutUniverse, MaxCallouts)
    /\ sw_features \in SeqsUpTo(SwUniverse, MaxSw)
    /\ default_config = Config(TRUE)
    /\ init_args = NoArgs
    /\ matcher = FeatureMatcherInit(NoArgs, default_config)
    /\ MatchStart
    /\ IdleExpansion
    /\ IdleValidation

\* another thread assigns fields of default_config while match_all runs
SetDefaultConfig ==
    /\ pc \in {"TappedHole", "Hole", "Fillet", "Chamfer", "equivalents"}
    /\ default_config = Config(TRUE)
    /\ default_config' \in SharedConfigs \ {default_config}
    /\ UNCHANGED <<pc, fp_round, drawing_callouts, sw_features, matcher, init_args, results,
                   used_sw_indices, used_callout_indices, scores, callouts,
                   features, expanded, expanded_sw, repaired, verdicts, stats,
                   path, sw_data, diff, raw_texts, drawing_units, title_block_text,
                normalized>>

NextShared ==
    \/ NextMatch
    \/ SetDefaultConfig

SpecShared == InitShared /\ [][NextShared]_vars

\* C19: the list match_all returns is the one its arguments, the matcher's
\* captured tolerances and the configuration in force at construction give,
\* whatever is assigned to the shared default configuration afterwards
C19_SnapshotDecides ==
    Returned =>
        results = match_all_with(drawing_callouts, sw_features, matcher,
                                 Config(TRUE))

\* with the configuration in force at return: the result is a function of
\* the arguments, the matcher and that configuration alone
C19_CurrentConfigDecides ==
    Returned =>
        results = match_all_with(drawing_callouts, sw_features, matcher,
                                 default_config)

\* the tolerances captured at construction are not read again
C19_CapturedTolerancesKept ==
    matcher = FeatureMatcherInit(NoArgs, Config(TRUE))

\* ---------------------------------------------------------------------
\* match_all on Hole callouts and Hole features of several depths

DepthCallouts ==
    {HoleCallout(500, depth) : depth \in {Absent, PyFloat(100), PyFloat(2000)}}

\* diameters inside the tolerance, inside three times the tolerance, outside
DepthFeatures ==
    {SwFeature("Hole", PyFloat(dia), depth, PyNone, PyNone) :
        dia \in {510, 520, 560}, depth \in {PyNone, PyFloat(100), PyFloat(2000)}}

InitDepth ==
    /\ NoNormalizer
    /\ NoCaller
    /\ fp_round = 0
    /\ drawing_callouts \in SeqsUpTo(DepthCallouts, MaxCallouts)
    /\ sw_features \in SeqsUpTo(DepthFeatures, MaxSw)
    /\ default_config = Config(TRUE)
    /\ init_args = NoArgs
    /\ matcher = FeatureMatcherInit(NoArgs, default_config)
    /\ MatchStart
    /\ IdleExpansion
    /\ IdleValidation

SpecDepth == InitDepth /\ [][NextMatch]_vars

\* the Hole features not yet consumed when the Hole pass reaches callout i,
\* whose diameter is within hole_tolerance of the callout's
OpenWithinTolerance(i) ==
    LET consumed == match_by_type(SubSeq(drawing_callouts, 1, i - 1), sw_features,
                                  "Hole", {}, {}, matcher).sw_used
    IN  {j \in DOMAIN sw_features \ consumed :
            /\ sw_features[j].feature_type = "Hole"
            /\ Abs(get_callout_diameter(drawing_callouts[i]).n
                   - sw_features[j].diameter_inches.n) <= matcher.hole_tolerance}

HolePassDone == pc \notin {"TappedHole", "Hole"}

\* C20: after the Hole pass, every Hole callout that had a not yet consumed
\* Hole feature within hole_tolerance of its diameter is paired with status
\* Matched, whatever the depths
C20_DepthNeverWorsens ==
    HolePassDone =>
        \A i \in DOMAIN drawing_callouts :
            OpenWithinTolerance(i) # {} =>
                \E n \in DOMAIN results :
                    /\ results[n].drawing_callout = i
                    /\ results[n].status = "matched"

\* the same where no callout or no feature carries a depth
C20_MatchedWithoutDepths ==
    (\/ \A i \in DOMAIN drawing_callouts :
            get_callout_depth(drawing_callouts[i]) = PyNone
     \/ \A j \in DOMAIN sw_features : sw_features[j].depth_inches = PyNone)
    => C20_DepthNeverWorsens

\* ---------------------------------------------------------------------
\* match_all on TappedHole callouts and TappedHole features that agree on the
\* nominal diameter and differ in pitch

PitchCallouts ==
    { [calloutType |-> PyStr("TappedHole"), raw |-> PyStr("M10x1.5"),
       thread |-> ThreadDict(PyFloat(1000), PyFloat(pitch), Absent)] :
          pitch \in {100, 150} }

PitchFeatures ==
    { SwFeature("TappedHole", PyFloat(335), PyNone, PyNone,
                ThreadDict(PyFloat(nom), pitch, Absent)) :
          nom \in {1000, 1005}, pitch \in {Absent, PyFloat(100), PyFloat(150)} }

InitPitch ==
    /\ NoNormalizer
    /\ NoCaller
    /\ fp_round = 0
    /\ drawing_callouts \in SeqsUpTo(PitchCallouts, MaxCallouts)
    /\ sw_features \in SeqsUpTo(PitchFeatures, MaxSw)
    /\ default_config = Config(TRUE)
    /\ init_args = NoArgs
    /\ matcher = FeatureMatcherInit(NoArgs, default_config)
    /\ MatchStart
    /\ IdleExpansion
    /\ IdleValidation

SpecPitch == InitPitch /\ [][NextMatch]_vars

\* the TappedHole features not yet consumed when the TappedHole pass reaches
\* callout i that compare as Matched with it
OpenThreadMatches(i) ==
    LET consumed == match_by_type(SubSeq(drawing_callouts, 1, i - 1), sw_features,
                                  "TappedHole", {}, {}, matcher).sw_used
    IN  {j \in DOMAIN sw_features \ consumed :
            /\ sw_features[j].feature_type = "TappedHole"
            /\ LET r == match_thread(drawing_callouts[i], i, sw_features[j], j,
                                     matcher)
               IN  r.m # PyNone /\ r.m.status = "matched"}

\* the results that name callout i with status ToleranceFail
ToleranceFails(i) ==
    {n \in DOMAIN results :
        results[n].drawing_callout = i /\ results[n].status = "tolerance"}

\* C21: after the TappedHole pass a TappedHole callout is paired with status
\* ToleranceFail only if no not yet consumed TappedHole feature compared as
\* Matched with it, whatever the order of the features
C21_ToleranceFailOnlyWithoutMatch ==
    pc # "TappedHole" =>
        \A i \in DOMAIN drawing_callouts :
            ToleranceFails(i) # {} => OpenThreadMatches(i) = {}

\* the same where every feature that compares as Matched stands before every
\* feature that does not, and is at least as close in nominal diameter
C21_HoldsForCloserEarlierMatch ==
    (\A i \in DOMAIN drawing_callouts : \A j \in OpenThreadMatches(i) :
        \A k \in DOMAIN sw_features \ OpenThreadMatches(i) :
            /\ j < k
            /\ Abs(Get(sw_features[j].thread.d, "nominalDiameterMm").n - 1000)
                 <= Abs(Get(sw_features[k].thread.d, "nominalDiameterMm").n - 1000))
    => C21_ToleranceFailOnlyWithoutMatch

\* ---------------------------------------------------------------------
\* Same-kind matching read off the results of match_all

MatchedKinds == <<"TappedHole", "Hole", "Fillet", "Chamfer">>

\* the pass over the m-th matched kind is over
PassDone(m) == pc \notin {MatchedKinds[k] : k \in 1..m}

KindOf(i) == Get(drawing_callouts[i], "calloutType")

\* the features that results pair with callout i and that are of its kind
SameKindPairs(i) ==
    {j \in DOMAIN sw_features :
        /\ PyStr(sw_features[j].feature_type) = KindOf(i)
        /\ \E n \in ResultsWithCallout(i) : results[n].sw_feature = j}

\* the features consumed by the callouts of the kind of callout i before it
ConsumedBefore(i) ==
    UNION {SameKindPairs(k) : k \in {k \in 1..(i - 1) : KindOf(k) = KindOf(i)}}

SameKindCompared(i, j) ==
    try_match(drawing_callouts[i], i, sw_features[j], j, KindOf(i).s, matcher)

\* the not yet consumed features of the kind of callout i that yield a result
Candidates(i) ==
    {j \in DOMAIN sw_features \ ConsumedBefore(i) :
        /\ PyStr(sw_features[j].feature_type) = KindOf(i)
        /\ SameKindCompared(i, j).m # PyNone}

\* the earliest of the candidates with the smallest abs(score)
GreedyChoice(i) ==
    {j \in Candidates(i) :
        \A k \in Candidates(i) :
            \/ AbsLess(SameKindCompared(i, j).score, SameKindCompared(i, k).score)
            \/ /\ ~AbsLess(SameKindCompared(i, k).score, SameKindCompared(i, j).score)
               /\ j <= k}

\* C22: once the pass over a kind is over, every callout of the kind, in list
\* order, is paired with the earliest not yet consumed feature of the kind with
\* the smallest abs(score) among those that yield a result, with none if none
\* yields a result, and no feature is paired with two callouts of the kind
C22_GreedyInListOrder ==
    \A m \in DOMAIN MatchedKinds : PassDone(m) =>
        \A i \in DOMAIN drawing_callouts : KindOf(i) = PyStr(MatchedKinds[m]) =>
            /\ SameKindPairs(i) = GreedyChoice(i)
            /\ \A k \in 1..(i - 1) :
                   KindOf(k) = KindOf(i) => SameKindPairs(k) \cap SameKindPairs(i) = {}

\* an earlier callout consumed a feature that a later callout of the kind is
\* strictly closer to, and the later callout is not paired with it
C22_Witness ==
    /\ Returned
    /\ \E i, k \in DOMAIN drawing_callouts : \E j \in DOMAIN sw_features :
           /\ i < k
           /\ KindOf(i) = KindOf(k)
           /\ KindOf(i).s \in {MatchedKinds[m] : m \in DOMAIN MatchedKinds}
           /\ j \in SameKindPairs(i)
           /\ SameKindCompared(k, j).m # PyNone
           /\ AbsLess(SameKindCompared(k, j).score, SameKindCompared(i, j).score)
           /\ j \notin SameKindPairs(k)

\* ---------------------------------------------------------------------
\* match_all on Hole callouts around the equivalence band of a tapped hole

EquivCallouts ==
    { [calloutType |-> PyStr("Hole"), raw |-> PyStr(raw), diameter |-> PyFloat(dia)] :
          raw \in {"DRILL THRU", "DIA .500 THRU"}, dia \in {509, 511, 520, 553} }
    \cup
    { [calloutType |-> PyStr("TappedHole"), raw |-> PyStr("M10x1.5 tap"),
       threadSize |-> PyStr("M10X1.0"), pitch |-> PyStr("1.0"),
       diameter |-> PyFloat(510)] }

EquivFeatures ==
    { SwFeature("Hole", PyFloat(504), PyNone, PyNone, PyNone),
      SwFeature("TappedHole", PyFloat(531), PyNone, PyNone,
                MetricThread(1000, 150, "M10x1.5")) }

InitEquiv ==
    /\ NoNormalizer
    /\ NoCaller
    /\ fp_round \in -1..1
    /\ drawing_callouts \in SeqsUpTo(EquivCallouts, MaxCallouts)
    /\ sw_features \in SeqsUpTo(EquivFeatures, MaxSw)
    /\ default_config \in {Config(TRUE), Config(FALSE)}
    /\ init_args = NoArgs
    /\ matcher = FeatureMatcherInit(NoArgs, default_config)
    /\ MatchStart
    /\ IdleExpansion
    /\ IdleValidation

SpecEquiv == InitEquiv /\ [][NextMatch]_vars

\* the results that pair a callout and a feature of different kinds
CrossKindResults ==
    {n \in DOMAIN results :
        /\ results[n].drawing_callout # 0
        /\ results[n].sw_feature # 0
        /\ KindOf(results[n].drawing_callout)
             # PyStr(sw_features[results[n].sw_feature].feature_type)}

DiameterGap(i, j) ==
    Abs(get_callout_diameter(drawing_callouts[i]).n - sw_features[j].diameter_inches.n)

\* C23: every result pairing a callout and a feature of different kinds is an
\* equivalent match made with the toggle enabled, between a Hole and a
\* TappedHole, of two items no same-kind result pairs, whose diameters differ by
\* at most the equivalence tolerance, the keyword bonus left out
C23_CrossKindOnlyByFallback ==
    \A n \in CrossKindResults :
        LET i == results[n].drawing_callout
            j == results[n].sw_feature
        IN  /\ results[n].notes = "Equivalent match"
            /\ results[n].status = "matched"
            /\ default_config.match_hole_tapped_equivalence
            /\ {KindOf(i), PyStr(sw_features[j].feature_type)} = HoleKinds
            /\ SameKindPairs(i) = {}
            /\ \A k \in DOMAIN drawing_callouts : j \notin SameKindPairs(k)
            /\ get_callout_diameter(drawing_callouts[i]) # PyNone
            /\ sw_features[j].diameter_inches # PyNone
            /\ DiameterGap(i, j)
                 <= default_config.hole_tapped_equivalence_tolerance_inches

\* match_all returned a cross-kind pair whose callout text earns the bonus, and
\* left unpaired a callout with the bonus and a feature of the other kind whose
\* diameters differ by more than the tolerance and by less than tolerance plus
\* bonus
C23_Witness ==
    /\ Returned
    /\ \E n \in CrossKindResults :
           Contains(Upper(Get(drawing_callouts[results[n].drawing_callout], "raw").s),
                    "DRILL")
    /\ \E i \in DOMAIN drawing_callouts : \E j \in DOMAIN sw_features :
           /\ KindOf(i) = PyStr("Hole")
           /\ sw_features[j].feature_type = "TappedHole"
           /\ Contains(Upper(Get(drawing_callouts[i], "raw").s), "DRILL")
           /\ DiameterGap(i, j) > hole_tapped_equivalence_tolerance_inches
           /\ DiameterGap(i, j) <= hole_tapped_equivalence_tolerance_inches + 3
           /\ \A n \in ResultsWithCallout(i) : results[n].status = "extra"
           /\ \A n \in ResultsWithSw(j) : results[n].status = "missing"

\* ---------------------------------------------------------------------
\* Dual-hypothesis resolution read off the normalized callouts

\* neither the text of the i-th callout nor the drawing states a unit
NoHint(i) ==
    /\ detect_callout_units(raw_texts[i]) = PyNone
    /\ StatedHint(raw_texts[i]) = PyNone
    /\ drawing_units = PyNone

\* the fields among those of kinds that are plausible as inches, and as
\* millimetres converted to inches
PlausibleAsInch(i, kinds) ==
    {f \in NumericFields(i, kinds) \ SKIP_FIELDS :
        is_plausible_inch(NumericOf(callouts[i][f]).n, f)}

PlausibleAsMm(i, kinds) ==
    {f \in NumericFields(i, kinds) \ SKIP_FIELDS :
        is_plausible_inch((NumericOf(callouts[i][f]).n * 10 + 127) \div 254, f)}

\* the unit and method the two counts over the fields of kinds call for
CountedUnits(i, kinds) ==
    LET inch_count == Cardinality(PlausibleAsInch(i, kinds))
        mm_count == Cardinality(PlausibleAsMm(i, kinds))
    IN  IF mm_count > inch_count THEN <<PyStr("mm"), PyStr("dual_hypothesis")>>
        ELSE IF inch_count > mm_count THEN <<PyStr("inch"), PyStr("dual_hypothesis")>>
        ELSE <<PyStr("inch"), PyStr("dual_hypothesis_ambiguous")>>

ResolvedUnits(i) ==
    <<Get(normalized[i], "_detected_units"),
      Get(normalized[i], "_normalization_method")>>

\* C24: with no callout-level and no drawing-level hint, the unit is mm when
\* more of the callout's numeric dimension fields are plausible as millimetres
\* than as inches, inch by dual_hypothesis when more are plausible as inches,
\* and inch by dual_hypothesis_ambiguous on every tie
C24_DualHypothesisCounts ==
    \A i \in DOMAIN normalized :
        NoHint(i) => ResolvedUnits(i) = CountedUnits(i, {"int", "float", "str"})

\* the same where the counts run over the fields given as text only
C24_CountsOverTextFields ==
    \A i \in DOMAIN normalized :
        NoHint(i) => ResolvedUnits(i) = CountedUnits(i, {"str"})

\* a callout whose dimension fields are all given as numbers resolves to inch
\* by dual_hypothesis_ambiguous
C24_NumbersNotCounted ==
    \A i \in DOMAIN normalized :
        (NoHint(i) /\ NumericFields(i, {"str"}) = {}) =>
            ResolvedUnits(i) = <<PyStr("inch"), PyStr("dual_hypothesis_ambiguous")>>

\* ---------------------------------------------------------------------
\* normalize_callouts (extractors/unit_normalizer.py 286-310)

MaxList == 2

\* detect_drawing_units: the INCH_PATTERNS are searched before the
\* METRIC_PATTERNS, and the last of the INCH_PATTERNS finds INCH anywhere
detect_drawing_units(text) ==
    CASE text = "" -> PyNone
      [] text = "DIMENSIONS ARE IN INCHES" -> PyStr("inch")
      [] text = "UNITS: MM" -> PyStr("mm")
      [] text = "DIMENSIONS ARE IN MILLIMETERS [INCHES]" -> PyStr("inch")
      [] OTHER -> PyNone

\* a list of raw texts, as opposed to None
PyList(v) == [k |-> "list", v |-> v]

\* zip(callouts, raw_texts) stops at the shorter of the two lists
normalize_callouts(cs, texts, title) ==
    LET units == detect_drawing_units(title)
        raws == IF texts = PyNone THEN [i \in 1..Len(cs) |-> <<>>] ELSE texts.v
        n == IF Len(raws) < Len(cs) THEN Len(raws) ELSE Len(cs)
    IN  [i \in 1..n |-> normalize_callout(cs[i], raws[i], units)]

ListCallouts ==
    { EmptyDict,
      DictOf([calloutType |-> PyStr("Hole"), diameter |-> PyStr("12.7")]),
      DictOf([calloutType |-> PyStr("Hole"), diameter |-> PyStr("0.500")]),
      DictOf([calloutType |-> PyStr("Hole"), diameter |-> PyFloat(12700000)]) }

ListTexts ==
    { <<>>,
      <<"1", "2", ".", "7", "m", "m">>,
      <<"0", ".", "5", " ", "i", "n">> }

TitleBlockTexts ==
    {"", "DIMENSIONS ARE IN INCHES", "UNITS: MM", "SCALE 1:2",
     "DIMENSIONS ARE IN MILLIMETERS [INCHES]"}

InitNormalizeAll ==
    /\ NoCaller
    /\ IdleValidation
    /\ features = <<>>
    /\ expanded = <<>>
    /\ expanded_sw = <<>>
    /\ scores = PyNone
    /\ IdleMatching
    /\ pc = "normalize_callouts"
    /\ callouts \in SeqsUpTo(ListCallouts, MaxList)
    /\ raw_texts \in {PyNone} \cup {PyList(v) : v \in SeqsUpTo(ListTexts, MaxList)}
    /\ title_block_text \in TitleBlockTexts
    /\ drawing_units = PyNone
    /\ normalized = <<>>

NormalizeCallouts ==
    /\ pc = "normalize_callouts"
    /\ drawing_units' = detect_drawing_units(title_block_text)
    /\ normalized' = normalize_callouts(callouts, raw_texts, title_block_text)
    /\ pc' = "callouts_normalized"
    /\ UNCHANGED <<fp_round, drawing_callouts, sw_features, matcher, init_args,
                   default_config, results, used_sw_indices,
                   used_callout_indices, scores, callouts, features, expanded,
                   expanded_sw, repaired, verdicts, stats, path, sw_data, diff,
                   raw_texts, title_block_text>>

SpecNormalizeAll == InitNormalizeAll /\ [][NormalizeCallouts]_vars

\* the raw text normalize_callouts is given for the i-th callout
OwnText(i) ==
    IF raw_texts = PyNone THEN <<>>
    ELSE IF i \in DOMAIN raw_texts.v THEN raw_texts.v[i]
    ELSE <<>>

\* the output has one element for each callout, each its callout normalized
\* alone with its own text and the drawing-level unit
OnePerCallout ==
    /\ Len(normalized) = Len(callouts)
    /\ \A i \in DOMAIN callouts :
           normalized[i] = normalize_callout(callouts[i], OwnText(i),
                               detect_drawing_units(title_block_text))

\* C25: normalize_callouts, given a list of raw texts or none, returns one
\* element for each input callout, the i-th being normalize_callout of the i-th
\* callout alone with its own raw text and the drawing-level unit
C25_OnePerCallout == pc = "callouts_normalized" => OnePerCallout

\* the same where no list of raw texts is given or the list has a text for
\* every callout
C25_OnePerCalloutWithItsText ==
    (/\ pc = "callouts_normalized"
     /\ raw_texts # PyNone => Len(raw_texts.v) >= Len(callouts)) => OnePerCallout

\* given fewer raw texts than callouts, the output stops at the last text
C25_StopsAtLastText ==
    (/\ pc = "callouts_normalized"
     /\ raw_texts # PyNone
     /\ Len(raw_texts.v) < Len(callouts)) => Len(normalized) = Len(raw_texts.v)

\* ---------------------------------------------------------------------
\* SwFeatureExtractor on the nested export: unit detection and the
\* hole-wizard holes (comparison/sw_extractor.py).  Raw values and the
\* diameters and depths extracted from them are in 0.0001 of the unit.

MaxHoles == 2

\* "SI" in internal
ContainsSI(internal) == internal \in {"SI (meters)", "SI"}

\* "meter" in internal.lower()
ContainsMeter(internal) == internal \in {"SI (meters)", "Meters"}

detect_si_units(data) ==
    LET units == GetOr(data.d, "units", PyDict(EmptyDict)).d
        internal == GetOr(units, "internalSystem", PyStr("")).s
        feats == GetOr(data.d, "features", PyDict(EmptyDict))
        holes == IF feats.k = "dict" THEN GetOr(feats.d, "holeWizardHoles", <<>>)
                 ELSE <<>>
        dia == IF holes = <<>> THEN PyInt(0)
               ELSE GetOr(holes[1], "diameter", PyInt(0))
    IN  IF ContainsSI(internal) \/ ContainsMeter(internal) THEN TRUE
        ELSE IF /\ Get(units, "docUnitSystem") = PyStr("IPS")
                /\ ContainsSI(internal) THEN TRUE
        ELSE holes # <<>> /\ 0 < dia.n /\ dia.n < 1000

\* value * METERS_TO_INCHES, to the nearest 0.0001
to_inches(value, is_si) ==
    IF is_si /\ value # PyNone
    THEN PyFloat((value.n * 393701 + 5000) \div 10000)
    ELSE value

\* _get_dimension: the first of the keys that holds a value
get_dimension(feat, keys) ==
    LET held == {k \in DOMAIN keys : Get(feat, keys[k]) # PyNone}
    IN  IF held = {} THEN PyNone
        ELSE PyFloat(feat[keys[CHOOSE k \in held : \A m \in held : k <= m]].n)

\* _extract_hole_wizard of a hole that carries no thread field and no
\* isTapped flag; PyNone stands for the hole left out
extract_hole_wizard(feat, is_si) ==
    LET diameter == get_dimension(feat, <<"diameter", "holeDiameter", "size">>)
        depth == get_dimension(feat, <<"depth", "holeDepth">>)
        depth_in == IF Truthy(depth) THEN to_inches(depth, is_si) ELSE depth
        is_through ==
            \/ Get(feat, "endCondition") \in {PyStr("Through All"), PyStr("Through")}
            \/ Truthy(GetOr(feat, "isThrough", PyBool(FALSE)))
    IN  IF diameter = PyNone THEN PyNone
        ELSE SwFeature("Hole", to_inches(diameter, is_si),
                       IF is_through THEN PyNone ELSE depth_in, PyNone, PyNone)

\* extract of an export whose features section holds holeWizardHoles only
extract_holes(data) ==
    LET is_si_units == detect_si_units(data)
        holes == GetOr(GetOr(data.d, "features", PyDict(EmptyDict)).d,
                       "holeWizardHoles", <<>>)
        extracted == [i \in DOMAIN holes |-> extract_hole_wizard(holes[i], is_si_units)]
    IN  Compact(extracted)

UnitsValues ==
    {Absent} \cup
    { PyDict(DictOf([internalSystem |-> internal, docUnitSystem |-> doc])) :
          internal \in {Absent, PyStr("SI (meters)"), PyStr("IPS")},
          doc \in {Absent, PyStr("IPS"), PyStr("MMGS")} }

\* 0.0127, 0.05 and 0.5 in raw units
HoleValues ==
    { DictOf([diameter |-> PyFloat(dia), depth |-> Absent, holeDiameter |-> Absent]) :
          dia \in {127, 500, 5000} }
    \cup
    { DictOf([diameter |-> Absent, depth |-> PyFloat(254),
              holeDiameter |-> PyFloat(127)]),
      DictOf([diameter |-> Absent, depth |-> Absent, holeDiameter |-> Absent]) }

InitExtract ==
    /\ NoNormalizer
    /\ IdleExpansion
    /\ IdleValidation
    /\ IdleMatching
    /\ path = "extract"
    /\ pc = "extract"
    /\ diff = PyNone
    /\ \E units \in UnitsValues : \E holes \in SeqsUpTo(HoleValues, MaxHoles) :
          sw_data = PyDict(DictOf([units |-> units,
                                   features |-> PyDict([holeWizardHoles |-> holes])]))

ExtractHoles ==
    /\ pc = "extract"
    /\ sw_features' = extract_holes(sw_data)
    /\ pc' = "extracted"
    /\ UNCHANGED <<fp_round, drawing_callouts, matcher, init_args, default_config, results,
                   used_sw_indices, used_callout_indices, scores, callouts,
                   features, expanded, expanded_sw, repaired, verdicts, stats,
                   path, sw_data, diff, raw_texts, drawing_units,
                   title_block_text, normalized>>

SpecExtract == InitExtract /\ [][ExtractHoles]_vars

\* the export declares a unit system
DeclaresUnits ==
    /\ "units" \in DOMAIN sw_data.d
    /\ DOMAIN sw_data.d["units"].d \cap {"internalSystem", "docUnitSystem"} # {}

\* the declaration says SI or metres
DeclaresSI ==
    /\ "units" \in DOMAIN sw_data.d
    /\ Get(sw_data.d["units"].d, "internalSystem") = PyStr("SI (meters)")

RawHoles == sw_data.d["features"].d["holeWizardHoles"]

\* the holes of the export that carry a diameter, in order
DimensionedHoles ==
    Compact([i \in DOMAIN RawHoles |->
                IF DOMAIN RawHoles[i] \cap {"diameter", "holeDiameter"} = {}
                THEN PyNone ELSE PyDict(RawHoles[i])])

RawDiameter(i) ==
    LET hole == DimensionedHoles[i].d
    IN  IF "diameter" \in DOMAIN hole THEN hole["diameter"].n
        ELSE hole["holeDiameter"].n

\* every extracted diameter is the raw value times the metres-to-inches factor
ReadAsSI ==
    \A i \in DOMAIN sw_features :
        sw_features[i].diameter_inches.n = (RawDiameter(i) * 393701 + 5000) \div 10000

\* every extracted diameter is the raw value
ReadAsGiven ==
    \A i \in DOMAIN sw_features : sw_features[i].diameter_inches.n = RawDiameter(i)

\* the first hole of the export has a diameter below 0.1 in raw units
SmallFirstHole ==
    /\ RawHoles # <<>>
    /\ "diameter" \in DOMAIN RawHoles[1]
    /\ 0 < RawHoles[1]["diameter"].n
    /\ RawHoles[1]["diameter"].n < 1000

\* C26: where the export declares a unit system the values are read as SI
\* exactly when the declaration says SI or metres, and the magnitude of the
\* first hole diameter decides only where no unit system is declared
C26_MetadataDecides ==
    pc = "extracted" =>
        /\ Len(sw_features) = Len(DimensionedHoles)
        /\ IF DeclaresUnits THEN (IF DeclaresSI THEN ReadAsSI ELSE ReadAsGiven)
           ELSE (IF SmallFirstHole THEN ReadAsSI ELSE ReadAsGiven)

\* a declaration of SI is followed, and without a declaration the magnitude
\* of the first hole diameter decides
C26_SIDeclaredOrNothingDeclared ==
    pc = "extracted" =>
        /\ DeclaresSI => ReadAsSI
        /\ ~DeclaresUnits => (IF SmallFirstHole THEN ReadAsSI ELSE ReadAsGiven)

\* under a declaration that does not say SI the magnitude of the first hole
\* diameter decides as well
C26_HeuristicUnderOtherDeclaration ==
    (pc = "extracted" /\ DeclaresUnits /\ ~DeclaresSI) =>
        (IF SmallFirstHole THEN ReadAsSI ELSE ReadAsGiven)

\* ---------------------------------------------------------------------
\* FeatureMatcher constructed with explicit tolerances, match_all on one
\* callout and one feature of its kind

\* each tolerance left out, given as 0, or given as a positive value
ToleranceArgs ==
    [hole_tolerance : {PyNone, PyFloat(0), PyFloat(5)},
     thread_tolerance_mm : {PyNone, PyFloat(0), PyFloat(5)},
     fillet_tolerance : {PyNone, PyFloat(0), PyFloat(5)},
     chamfer_tolerance : {PyNone, PyFloat(0), PyFloat(5)},
     pitch_tolerance : {PyNone, PyFloat(0), PyFloat(2)}]

\* a callout and a feature of its kind that agree, or differ by less than the
\* default tolerance
TolerancePairs ==
    { <<[calloutType |-> PyStr("Hole"), raw |-> PyStr("DIA .500 THRU"),
         diameter |-> PyFloat(500)],
        SwFeature("Hole", PyFloat(dia), PyNone, PyNone, PyNone)>> :
          dia \in {500, 504} }
    \cup
    { <<[calloutType |-> PyStr("TappedHole"), raw |-> PyStr("M10x1.5"),
         thread |-> ThreadDict(PyFloat(1000), PyFloat(150), Absent)],
        SwFeature("TappedHole", PyFloat(335), PyNone, PyNone,
                  ThreadDict(PyFloat(nom), PyFloat(pitch), Absent))>> :
          nom \in {1000, 1004}, pitch \in {150, 151} }
    \cup
    { <<[calloutType |-> PyStr("Fillet"), raw |-> PyStr("R.125"),
         radius |-> PyFloat(125)],
        SwFeature("Fillet", PyNone, PyNone, PyFloat(radius), PyNone)>> :
          radius \in {125, 129} }
    \cup
    { <<[calloutType |-> PyStr("Chamfer"), raw |-> PyStr(".060 X 45"),
         size |-> PyFloat(60)],
        SwFeature("Chamfer", PyNone, PyNone, PyFloat(size), PyNone)>> :
          size \in {60, 64} }

InitTolerance ==
    /\ NoNormalizer
    /\ NoCaller
    /\ fp_round = 0
    /\ \E pair \in TolerancePairs :
          /\ drawing_callouts = <<pair[1]>>
          /\ sw_features = <<pair[2]>>
    /\ default_config = Config(FALSE)
    /\ init_args \in ToleranceArgs
    /\ matcher = FeatureMatcherInit(init_args, default_config)
    /\ MatchStart
    /\ IdleExpansion
    /\ IdleValidation

SpecTolerance == InitTolerance /\ [][NextMatch]_vars

\* the tolerance the constructor was given, the default where none was given
Supplied(arg, default) == IF arg = PyNone THEN default ELSE arg.n

\* the callout and the feature are within the tolerances supplied for their kind
WithinSupplied ==
    LET kind == Get(drawing_callouts[1], "calloutType").s
        sw == sw_features[1]
    IN  CASE kind = "Hole" ->
               Abs(Get(drawing_callouts[1], "diameter").n - sw.diameter_inches.n)
                 <= Supplied(init_args.hole_tolerance, hole_tolerance_inches)
          [] kind = "TappedHole" ->
               /\ Abs(Get(Get(drawing_callouts[1], "thread").d, "nominalDiameterMm").n
                      - Get(sw.thread.d, "nominalDiameterMm").n)
                    <= Supplied(init_args.thread_tolerance_mm, thread_tolerance_mm)
               /\ Abs(Get(Get(drawing_callouts[1], "thread").d, "pitch").n
                      - Get(sw.thread.d, "pitch").n)
                    <= Supplied(init_args.pitch_tolerance, pitch_tolerance)
          [] kind = "Fillet" ->
               Abs(Get(drawing_callouts[1], "radius").n - sw.radius_inches.n)
                 <= Supplied(init_args.fillet_tolerance, fillet_tolerance_inches)
          [] kind = "Chamfer" ->
               Abs(Get(drawing_callouts[1], "size").n - sw.radius_inches.n)
                 <= Supplied(init_args.chamfer_tolerance, chamfer_tolerance_inches)

PairMatched ==
    \E n \in DOMAIN results :
        /\ results[n].status = "matched"
        /\ results[n].drawing_callout = 1
        /\ results[n].sw_feature = 1

\* the matcher holds the supplied value of every tolerance
HoldsSupplied ==
    /\ matcher.hole_tolerance
         = Supplied(init_args.hole_tolerance, hole_tolerance_inches)
    /\ matcher.thread_tolerance_mm
         = Supplied(init_args.thread_tolerance_mm, thread_tolerance_mm)
    /\ matcher.fillet_tolerance
         = Supplied(init_args.fillet_tolerance, fillet_tolerance_inches)
    /\ matcher.chamfer_tolerance
         = Supplied(init_args.chamfer_tolerance, chamfer_tolerance_inches)
    /\ matcher.pitch_tolerance
         = Supplied(init_args.pitch_tolerance, pitch_tolerance)

\* C27: a matcher constructed with an explicit tolerance, 0 included, holds
\* that value and pairs the callout with the feature as Matched exactly when
\* they are within it; the default stands in only for a tolerance not given
C27_ExplicitToleranceUsed ==
    /\ HoldsSupplied
    /\ Returned => (PairMatched <=> WithinSupplied)

ZeroGiven == \E f \in DOMAIN init_args : init_args[f] = PyFloat(0)

\* the same for the constructions that give no tolerance as 0
C27_PositiveToleranceUsed == ~ZeroGiven => C27_ExplicitToleranceUsed

\* a tolerance given as 0 is replaced by the default
C27_ZeroReplacedByDefault ==
    /\ init_args.hole_tolerance = PyFloat(0)
         => matcher.hole_tolerance = hole_tolerance_inches
    /\ init_args.thread_tolerance_mm = PyFloat(0)
         => matcher.thread_tolerance_mm = thread_tolerance_mm
    /\ init_args.fillet_tolerance = PyFloat(0)
         => matcher.fillet_tolerance = fillet_tolerance_inches
    /\ init_args.chamfer_tolerance = PyFloat(0)
         => matcher.chamfer_tolerance = chamfer_tolerance_inches
    /\ init_args.pitch_tolerance = PyFloat(0)
         => matcher.pitch_tolerance = pitch_tolerance

\* ---------------------------------------------------------------------
\* The pipelines' unit normalization (pipeline/yolo_pipeline.py 261-276,
\* pipeline/vision_pipeline.py 212-225)

\* the drawing-level unit: the title block's, else the page understanding's
\* when that is "inch" or "metric"
pipeline_drawing_units(title, vlm_units) ==
    LET detected == detect_drawing_units(title)
    IN  IF ~Truthy(detected) /\ Truthy(vlm_units)
            /\ vlm_units \in {PyStr("inch"), PyStr("metric")}
        THEN vlm_units
        ELSE detected

\* page_understanding.get("units")
PageUnits == {PyNone, PyStr("inch"), PyStr("metric"), PyStr("unknown")}

InitPipelineUnits ==
    /\ NoCaller
    /\ IdleValidation
    /\ features = <<>>
    /\ expanded = <<>>
    /\ expanded_sw = <<>>
    /\ IdleMatching
    /\ pc = "normalize"
    /\ \E n \in 1..MaxNorm :
          /\ callouts \in [1..n -> ParsedCallouts]
          /\ raw_texts \in [1..n -> RawTexts]
    /\ title_block_text \in TitleBlockTexts
    /\ \E vlm_units \in PageUnits :
          drawing_units = pipeline_drawing_units(title_block_text, vlm_units)
    /\ normalized = <<>>

SpecPipelineUnits == InitPipelineUnits /\ [][NormalizeNext]_vars

\* the title block declares no unit, the page understanding says metric, and
\* the text of the i-th callout states no unit
MetricFromPage(i) ==
    /\ detect_drawing_units(title_block_text) = PyNone
    /\ drawing_units = PyStr("metric")
    /\ detect_callout_units(raw_texts[i]) = PyNone
    /\ StatedHint(raw_texts[i]) = PyNone

\* C28: with no unit declared in the title block and metric taken from the
\* page understanding, a callout without a callout-level hint is normalized as
\* millimetres: detected units mm, dimension fields given as text times 1/25.4
C28_MetricReadAsMm ==
    \A i \in DOMAIN normalized : MetricFromPage(i) =>
        /\ Get(normalized[i], "_detected_units") = PyStr("mm")
        /\ \A f \in NumericFields(i, {"str"}) :
               /\ IsNumber(normalized[i][f])
               /\ IsInchesOfMm(normalized[i][f].n, NumericOf(callouts[i][f]).n)

\* such a callout is reported in the unit "metric" with its dimension fields
\* not converted
C28_MetricLeftUnconverted ==
    \A i \in DOMAIN normalized : MetricFromPage(i) =>
        /\ Get(normalized[i], "_detected_units") = PyStr("metric")
        /\ Get(normalized[i], "_normalization_method") = PyStr("drawing_hint")
        /\ \A f \in NumericFields(i, {"str"}) :
               normalized[i][f] = NumericOf(callouts[i][f])

\* where the title block declares millimetres the callout is read as mm
C28_DeclaredMmReadAsMm ==
    \A i \in DOMAIN normalized :
        (/\ detect_drawing_units(title_block_text) = PyStr("mm")
         /\ detect_callout_units(raw_texts[i]) = PyNone) =>
            /\ Get(normalized[i], "_detected_units") = PyStr("mm")
            /\ \A f \in NumericFields(i, {"str"}) :
                   IsInchesOfMm(normalized[i][f].n, NumericOf(callouts[i][f]).n)

\* ---------------------------------------------------------------------
\* The match rate of compare_drawing against compute_scores on the same results

\* compare_drawing ran a comparison and stored its DiffResult
RealComparison == pc = "compared" /\ diff.has_sw_data

\* the float quotient stored as match_rate equals the rate, held in 0.0001
RatesAgree ==
    diff.match_rate.num * 10000
        = compute_scores(results).instance_match_rate * diff.match_rate.den

\* C29: the match_rate compare_drawing stores equals the instance_match_rate
\* compute_scores returns for the same match results, also where there are no
\* requirements
C29_MatchRatesAgree == RealComparison => RatesAgree

SkippedFeatures ==
    {n \in DOMAIN results : results[n].status = "skipped" /\ results[n].sw_feature # 0}

\* the two agree where there are features, none of them skipped, and the
\* quotient has no more than four decimals, and where there are neither
\* features nor Extra callouts
C29_AgreeWithoutSkippedOrExtra ==
    (/\ RealComparison
     /\ IF sw_features = <<>> THEN diff.summary.extra = 0
        ELSE /\ SkippedFeatures = {}
             /\ (10000 * diff.summary.matched) % Len(sw_features) = 0)
    => RatesAgree

\* with no requirements and a callout left Extra, compare_drawing stores 0.0
\* where compute_scores returns 1.0
C29_NoRequirementsWithExtra ==
    (RealComparison /\ sw_features = <<>> /\ diff.summary.extra > 0) =>
        /\ diff.match_rate = Ratio(0, 1)
        /\ compute_scores(results).instance_match_rate = 10000

\* ---------------------------------------------------------------------
\* validate_callout applied again to the callout it returned

MaxPasses == 3

InitRevalidate ==
    /\ NoNormalizer
    /\ NoCaller
    /\ IdleMatching
    /\ features = <<>>
    /\ expanded = <<>>
    /\ expanded_sw = <<>>
    /\ pc = "revalidating"
    /\ \E c \in ValidationUniverse : callouts = <<c>>
    /\ repaired = <<>>
    /\ verdicts = <<>>
    /\ stats = PyNone

\* validate_callout on the input, then on the callout the last pass returned
Revalidate ==
    /\ pc = "revalidating"
    /\ Len(repaired) < MaxPasses
    /\ LET v == validate_callout(IF repaired = <<>> THEN callouts[1]
                                 ELSE repaired[Len(repaired)])
       IN  /\ repaired' = Append(repaired, v.callout)
           /\ verdicts' = Append(verdicts, [is_valid |-> v.is_valid, error |-> v.error])
    /\ pc' = IF Len(repaired) + 1 = MaxPasses THEN "revalidated" ELSE "revalidating"
    /\ UNCHANGED stats
    /\ ValidationOnly

SpecRevalidate == InitRevalidate /\ [][Revalidate]_vars

\* the kind of the callout before the first validation
KindBefore == GetOr(callouts[1], "calloutType", PyStr(""))

\* C30: the callout returned for an invalid input is reported invalid again
\* with kind Unknown by every later validation, and after any number of
\* passes _original_calloutType is the kind the callout had before the first
C30_StableUnderRevalidation ==
    (verdicts # <<>> /\ ~verdicts[1].is_valid) =>
        \A k \in DOMAIN verdicts :
            /\ ~verdicts[k].is_valid
            /\ Get(repaired[k], "calloutType") = PyStr("Unknown")
            /\ Get(repaired[k], "_original_calloutType") = KindBefore

\* the first validation of an invalid input forces Unknown and keeps the kind
C30_FirstPassKeepsKind ==
    (verdicts # <<>> /\ ~verdicts[1].is_valid) =>
        /\ Get(repaired[1], "calloutType") = PyStr("Unknown")
        /\ Get(repaired[1], "_original_calloutType") = KindBefore

\* a later validation finds the returned callout valid unless an error other
\* than the kind's or a required field's remains, and one that finds it
\* invalid stores Unknown as the original kind
C30_LaterPassForgetsKind ==
    \A k \in DOMAIN verdicts : (k > 1 /\ ~verdicts[1].is_valid) =>
        /\ Get(repaired[k], "calloutType") = PyStr("Unknown")
        /\ IF verdicts[k].is_valid
               THEN Get(repaired[k], "_original_calloutType") = KindBefore
               ELSE Get(repaired[k], "_original_calloutType") = PyStr("Unknown")

====
